---------------------------- MODULE Spec2Model ----------------------------
(***************************************************************************)
(* Union catalogue builder (colectivo_v6_mini.py): key extraction, the     *)
(* incremental two-tier clustering of build_clusters, the primary choice   *)
(* and the field-level merge of merge_cluster.                             *)
(*                                                                         *)
(* Text is a sequence of one-character strings, so that normalisation,     *)
(* digit filtering, token sorting and the similarity ratio are computed    *)
(* character by character as the code does.  A MARC record is the ordered  *)
(* sequence of its fields.                                                 *)
(***************************************************************************)
EXTENDS Integers, Sequences, FiniteSets, TLC

VARIABLES
    VALIDATE,       \* module global VALIDATE (checksum enforcement)
    weak,           \* build_clusters parameter: fuzzy threshold
    use_fuzzy,      \* build_clusters parameter
    strong_only,    \* build_clusters parameter
    sources,        \* build_clusters parameter: the (lib, path) pairs, in order
    src,            \* position in sources of the file being read
    pc,             \* control point
    clusters,       \* build_clusters local: List[Cluster]
    strong_index,   \* build_clusters local: Dict[str, Cluster]
    fuzzy_index,    \* build_clusters local: Dict[str, Cluster]
    next_id,        \* build_clusters local
    total,          \* build_clusters local
    stream,         \* the SourceRecords the readers have yielded, in order
    sr,             \* loop local: the SourceRecord of the last iteration
    cl,             \* loop local: the cluster the last record went to
    best_sc,        \* loop local of the fuzzy scan
    best_cluster,   \* loop local of the fuzzy scan
    cluster,        \* merge_cluster parameter (the object, mutated in place)
    members0,       \* the member list as it was when merge_cluster was called
    prefer,         \* merge_cluster parameter
    prefer_fields,  \* merge_cluster parameter
    prov_tag,       \* merge_cluster parameter
    hold_tag,       \* merge_cluster parameter
    merge_tag,      \* merge_cluster parameter
    keep9,          \* merge_cluster parameter
    primary,        \* merge_cluster local: position of the primary in members
    rec,            \* merge_cluster result
    args,           \* main: the parsed command line (a, an argparse Namespace)
    files,          \* the file system: what MARCReader yields for each path
    pos,            \* iter_records_mrc: position of the reader in the file
    count,          \* build_clusters local: records processed of the source
    union,          \* the records write_union has written
    report,         \* the rows write_report has written
    manifest,       \* the data write_json has dumped
    written,        \* the output artifacts written, in order
    error,          \* the exception that ended the run, None when none did
    fn,             \* a function called on its own: its name
    arg,            \* a function called on its own: its argument
    res,            \* a function called on its own: what it returned
    phase_counter,  \* PerfMonitor.phase_counter
    log_perf,       \* the records of the "performance" logger, in order
    phases,         \* the phases entered and not left, innermost last
    raising         \* an exception is propagating out of a phase body

cvars == <<VALIDATE, weak, use_fuzzy, strong_only, sources, src, clusters,
           strong_index, fuzzy_index, next_id, total, stream, sr, cl,
           best_sc, best_cluster>>
mvars == <<cluster, members0, prefer, prefer_fields, prov_tag, hold_tag,
           merge_tag, keep9, primary, rec>>
avars == <<args, files, pos, count, union, report, manifest, written, error>>
pvars == <<fn, arg, res>>
qvars == <<phase_counter, log_perf, phases, raising>>
vars == <<cvars, mvars, avars, pvars, qvars, pc>>

\* Python's None where a text is expected: a text of one non-character.
None == <<"<None>">>
\* Python's None where a Cluster is expected (clusters are denoted by their
\* position in the clusters list, which starts at 1).
NoCluster == 0
\* Python's truth value of an Optional[str].
Truthy(s) == s # None /\ s # <<>>
\* An assignment x = v followed by code that reads x: v is evaluated once.
Bind(v, Body(_)) == CHOOSE y \in {Body(x) : x \in {v}} : TRUE

(***************************************************************************)
(* Bounds of the model.                                                    *)
(***************************************************************************)
\* Longest input stream (records over all sources) of a clustering run.
MaxRecords == 3
\* Largest cluster handed to merge_cluster.
MaxMembers == 2
\* Longest first source file of a run of main.
MaxFileLen == 2

(***************************************************************************)
(* Characters.                                                             *)
(***************************************************************************)
DigitChars == <<"0", "1", "2", "3", "4", "5", "6", "7", "8", "9">>
LowerChars == <<"a", "b", "c", "d", "e", "f", "g", "h", "i", "j", "k", "l", "m",
                "n", "o", "p", "q", "r", "s", "t", "u", "v", "w", "x", "y", "z">>
UpperChars == <<"A", "B", "C", "D", "E", "F", "G", "H", "I", "J", "K", "L", "M",
                "N", "O", "P", "Q", "R", "S", "T", "U", "V", "W", "X", "Y", "Z">>

Range(s) == {s[i] : i \in DOMAIN s}
IndexOf(s, c) == CHOOSE i \in DOMAIN s : s[i] = c
DigitSet == Range(DigitChars)
LowerSet == Range(LowerChars)
UpperSet == Range(UpperChars)
DigitValue == [c \in DigitSet |-> IndexOf(DigitChars, c) - 1]
ToLower == [c \in UpperSet |-> LowerChars[IndexOf(UpperChars, c)]]
ToUpper == [c \in LowerSet |-> UpperChars[IndexOf(LowerChars, c)]]

\* str.isdigit and int() on one character.
isdigit(ch) == ch \in DigitSet
int(ch) == DigitValue[ch]

\* str.lower and str.upper on one character.
lower(ch) == IF ch \in UpperSet THEN ToLower[ch] ELSE ch
upper(ch) == IF ch \in LowerSet THEN ToUpper[ch] ELSE ch

\* The characters PUNCT_TABLE maps to a space ("U+0060" is the backtick).
PunctChars == {",", ".", ";", ":", "!", "?", "/", "'", "\"", "(", ")", "[", "]",
               "{", "}", "<", ">", "-", "&", "_", "=", "+", "*", "#", "@", "$",
               "%", "^", "U+0060", "~", "|"}
PUNCT_TABLE(ch) == IF ch \in PunctChars THEN " " ELSE ch

\* The characters str.split() separates on.
WhiteSpace == {" ", "\t", "\n"}

\* unidecode on one character: ASCII is kept, the accented letters of the
\* model's alphabet are transliterated (one of them to two letters).
unidecode1(ch) ==
    CASE ch = "U+00E9" -> <<"e">>
      [] ch = "U+00C1" -> <<"A">>
      [] ch = "U+00DF" -> <<"s", "s">>
      [] OTHER -> <<ch>>

\* Code point order of the characters a normalised key is made of.
CodePoint(ch) ==
    IF ch \in WhiteSpace THEN 32
    ELSE IF isdigit(ch) THEN 48 + int(ch)
    ELSE IF ch \in UpperSet THEN 64 + IndexOf(UpperChars, ch)
    ELSE IF ch \in LowerSet THEN 96 + IndexOf(LowerChars, ch)
    ELSE IF ch = ":" THEN 58
    ELSE 33

(***************************************************************************)
(* Text helpers.                                                           *)
(***************************************************************************)
RECURSIVE Flatten(_)
Flatten(ss) == IF ss = <<>> THEN <<>> ELSE Head(ss) \o Flatten(Tail(ss))

MapSeq(Op(_), s) == [i \in DOMAIN s |-> Op(s[i])]

\* sep.join(parts)
RECURSIVE Join(_, _)
Join(sep, parts) ==
    IF parts = <<>> THEN <<>>
    ELSE IF Len(parts) = 1 THEN parts[1]
    ELSE parts[1] \o sep \o Join(sep, Tail(parts))

\* str.split(): the maximal runs of non-whitespace characters, in order.
RECURSIVE SplitFrom(_, _, _)
SplitFrom(s, i, cur) ==
    IF i > Len(s) THEN (IF cur = <<>> THEN <<>> ELSE <<cur>>)
    ELSE IF s[i] \in WhiteSpace
         THEN (IF cur = <<>> THEN <<>> ELSE <<cur>>) \o SplitFrom(s, i + 1, <<>>)
         ELSE SplitFrom(s, i + 1, Append(cur, s[i]))
split(s) == SplitFrom(s, 1, <<>>)

\* str.strip()
RECURSIVE lstrip(_)
lstrip(s) == IF s # <<>> /\ Head(s) \in WhiteSpace THEN lstrip(Tail(s)) ELSE s
RECURSIVE rstrip(_)
rstrip(s) ==
    IF s # <<>> /\ s[Len(s)] \in WhiteSpace THEN rstrip(SubSeq(s, 1, Len(s) - 1)) ELSE s
strip(s) == rstrip(lstrip(s))

\* Python's order on strings: code point by code point, a prefix first.
RECURSIVE StrLess(_, _)
StrLess(a, b) ==
    IF b = <<>> THEN FALSE
    ELSE IF a = <<>> THEN TRUE
    ELSE IF CodePoint(Head(a)) # CodePoint(Head(b))
         THEN CodePoint(Head(a)) < CodePoint(Head(b))
         ELSE StrLess(Tail(a), Tail(b))

\* sorted(list of strings): stable insertion sort.
RECURSIVE InsertSorted(_, _)
InsertSorted(x, s) ==
    IF s = <<>> THEN <<x>>
    ELSE IF StrLess(x, Head(s)) THEN <<x>> \o s
    ELSE <<Head(s)>> \o InsertSorted(x, Tail(s))
RECURSIVE sorted(_)
sorted(s) == IF s = <<>> THEN <<>> ELSE InsertSorted(s[Len(s)], sorted(SubSeq(s, 1, Len(s) - 1)))

(***************************************************************************)
(* normalize_text and only_digits_x.                                       *)
(***************************************************************************)
\* A wrong normalisation, which C25 rules out: the blanks are left as they are.
normalize_text_NoCollapse(s) ==
    LET t == IF Truthy(s) THEN s ELSE <<>>
        u == Flatten(MapSeq(unidecode1, t))
        l == MapSeq(lower, u)
    IN  MapSeq(PUNCT_TABLE, l)

normalize_text(s) ==
    LET t == IF Truthy(s) THEN s ELSE <<>>
        u == Flatten(MapSeq(unidecode1, t))
        l == MapSeq(lower, u)
        p == MapSeq(PUNCT_TABLE, l)
    IN  Join(<<" ">>, split(p))

only_digits_x(s) ==
    MapSeq(upper, SelectSeq(s, LAMBDA ch : isdigit(ch) \/ upper(ch) = "X"))

(***************************************************************************)
(* ISBN / ISSN validation.                                                 *)
(***************************************************************************)
RECURSIVE SumTo(_, _)
\* sum(term(i) for i in 0..n-1), term given as a sequence of n integers
SumTo(terms, n) == IF n = 0 THEN 0 ELSE terms[n] + SumTo(terms, n - 1)
Sum(terms) == SumTo(terms, Len(terms))

AllDigits(d) == \A i \in DOMAIN d : isdigit(d[i])

\* A wrong validator, which C24 rules out: a final X passes whatever the sum.
is_valid_isbn10_AnyX(d) ==
    IF Len(d) # 10 THEN FALSE
    ELSE IF ~AllDigits(SubSeq(d, 1, 9)) THEN FALSE
    ELSE LET total9 == Sum([i \in 1..9 |-> i * int(d[i])])
             mod == total9 % 11
         IN  d[10] = "X" \/ (isdigit(d[10]) /\ int(d[10]) = mod)

is_valid_isbn10(d) ==
    IF Len(d) # 10 THEN FALSE
    ELSE IF ~AllDigits(SubSeq(d, 1, 9)) THEN FALSE   \* int(x) raises: except
    ELSE LET total9 == Sum([i \in 1..9 |-> i * int(d[i])])
             mod == total9 % 11
         IN  (d[10] = "X" /\ mod = 10) \/ (isdigit(d[10]) /\ int(d[10]) = mod)

is_valid_isbn13(d) ==
    IF Len(d) # 13 \/ ~AllDigits(d) THEN FALSE
    ELSE LET s == Sum([i \in 1..12 |-> (IF (i - 1) % 2 = 0 THEN 1 ELSE 3) * int(d[i])])
         IN  (10 - (s % 10)) % 10 = int(d[13])

\* A wrong check, which C36 rules out: seven characters are not padded.
is_valid_issn_NoPad(d) ==
    IF Len(d) # 8 THEN FALSE
    ELSE IF ~AllDigits(SubSeq(d, 1, 7)) THEN FALSE
    ELSE LET tot == Sum([i \in 1..7 |-> (8 - (i - 1)) * int(d[i])])
             chk == (11 - (tot % 11)) % 11
         IN  (IF chk = 10 THEN "X" ELSE DigitChars[chk + 1]) = d[8]
is_valid_issn(d0) ==
    LET d == IF Len(d0) = 7 THEN <<"0">> \o d0 ELSE d0
    IN  IF Len(d) # 8 THEN FALSE
        ELSE IF ~AllDigits(SubSeq(d, 1, 7)) THEN FALSE   \* int(ch) raises: except
        ELSE LET tot == Sum([i \in 1..7 |-> (8 - (i - 1)) * int(d[i])])
                 chk == (11 - (tot % 11)) % 11
             IN  (IF chk = 10 THEN "X" ELSE DigitChars[chk + 1]) = d[8]

\* norm_isbn and norm_issn read the global VALIDATE: validate is its value
\* at the time of the call.
norm_isbn(s, validate) ==
    LET d == only_digits_x(s)
    IN  IF Len(d) = 10 THEN (IF ~validate \/ is_valid_isbn10(d) THEN d ELSE None)
        ELSE IF Len(d) = 13 THEN (IF ~validate \/ is_valid_isbn13(d) THEN d ELSE None)
        ELSE None

\* A wrong gate, which C22 rules out: the ISSN is never validated.
norm_issn_Unchecked(s, validate) ==
    LET d == only_digits_x(s)
    IN  IF d = <<>> THEN None ELSE d

norm_issn(s, validate) ==
    LET d == only_digits_x(s)
    IN  IF d = <<>> THEN None
        ELSE IF ~validate \/ is_valid_issn(d) THEN d ELSE None

(***************************************************************************)
(* MARC records (pymarc Record, Field, Subfield).                          *)
(***************************************************************************)
Subf(code, value) == [code |-> code, value |-> value]
\* A data field; a control field (tag 00x) carries data and no subfields.
Field(tag, ind1, ind2, subfields) ==
    [tag |-> tag, indicator1 |-> ind1, indicator2 |-> ind2,
     subfields |-> subfields, data |-> <<>>]
ControlField(tag, data) ==
    [tag |-> tag, indicator1 |-> "", indicator2 |-> "", subfields |-> <<>>,
     data |-> data]

\* Record.get_fields(*tags): the fields with one of the tags, in record order.
get_fields(r, tags) == SelectSeq(r, LAMBDA f : f.tag \in tags)
\* Field.get_subfields(*codes): the values with one of the codes, in field order.
get_subfields(f, codes) ==
    LET hit == SelectSeq(f.subfields, LAMBDA sf : sf.code \in codes)
    IN  [i \in DOMAIN hit |-> hit[i].value]
\* Record.add_field: append.  Record.remove_field of every field of a tag.
add_field(r, f) == Append(r, f)
remove_fields(r, tag) == SelectSeq(r, LAMBDA f : f.tag # tag)

t001 == <<"0", "0", "1">>
t008 == <<"0", "0", "8">>
t020 == <<"0", "2", "0">>
t022 == <<"0", "2", "2">>
t035 == <<"0", "3", "5">>
t100 == <<"1", "0", "0">>
t110 == <<"1", "1", "0">>
t111 == <<"1", "1", "1">>
t245 == <<"2", "4", "5">>
t260 == <<"2", "6", "0">>
t264 == <<"2", "6", "4">>
t300 == <<"3", "0", "0">>
t910 == <<"9", "1", "0">>
t948 == <<"9", "4", "8">>
t999 == <<"9", "9", "9">>

(***************************************************************************)
(* Field extraction and the identity keys.                                 *)
(***************************************************************************)
\* A wrong local id, which C16 rules out: 999$c as it is, not stripped.
get_local_id_NotStripped(r) ==
    LET f999 == get_fields(r, {t999})
        f001 == get_fields(r, {t001})
    IN  IF f999 # <<>> /\ get_subfields(f999[1], {"c"}) # <<>>
        THEN get_subfields(f999[1], {"c"})[1]
        ELSE IF f001 # <<>> THEN strip(f001[1].data) ELSE <<>>

get_local_id(r) ==
    LET f999 == get_fields(r, {t999})
        c == IF f999 # <<>> THEN get_subfields(f999[1], {"c"}) ELSE <<>>
        f001 == get_fields(r, {t001})
    IN  IF c # <<>> THEN strip(c[1])
        ELSE IF f001 # <<>> THEN strip(f001[1].data)
        ELSE <<>>

extract_author(r) ==
    LET f100 == get_fields(r, {t100})
        f110 == get_fields(r, {t110})
        f111 == get_fields(r, {t111})
        f == IF f100 # <<>> THEN f100 ELSE IF f110 # <<>> THEN f110 ELSE f111
    IN  IF f # <<>> THEN Join(<<" ">>, get_subfields(f[1], {"a", "b", "c", "d"}))
        ELSE <<>>

extract_title(r) ==
    LET f == get_fields(r, {t245})
    IN  IF f # <<>> THEN Join(<<" ">>, get_subfields(f[1], {"a", "b"})) ELSE <<>>

\* The first 4 digits of the first $c that holds at least 4 digits, over the
\* fields of one tag in record order; None when there is none.
RECURSIVE YearOfValues(_)
YearOfValues(cs) ==
    IF cs = <<>> THEN None
    ELSE LET y == SelectSeq(Head(cs), isdigit)
         IN  IF Len(y) >= 4 THEN SubSeq(y, 1, 4) ELSE YearOfValues(Tail(cs))
YearOfTag(r, tag) ==
    YearOfValues(Flatten([i \in DOMAIN get_fields(r, {tag}) |->
                            get_subfields(get_fields(r, {tag})[i], {"c"})]))

extract_year(r) ==
    LET y264 == YearOfTag(r, t264)
        y260 == YearOfTag(r, t260)
        f008 == get_fields(r, {t008})
    IN  IF y264 # None THEN y264
        ELSE IF y260 # None THEN y260
        ELSE IF f008 # <<>> /\ Len(f008[1].data) >= 11
                /\ AllDigits(SubSeq(f008[1].data, 8, 11))
             THEN SubSeq(f008[1].data, 8, 11)
        ELSE <<>>

build_fuzzy_key(r) ==
    normalize_text(extract_author(r) \o <<"|">> \o extract_title(r) \o <<"|">>
                   \o extract_year(r))

\* The first accepted candidate of a sequence of subfield values.
RECURSIVE FirstAccepted(_, _)
FirstAccepted(norm(_), vs) ==
    IF vs = <<>> THEN None
    ELSE IF Truthy(norm(Head(vs))) THEN norm(Head(vs))
    ELSE FirstAccepted(norm, Tail(vs))
CandidateValues(r, tag, codes) ==
    Flatten([i \in DOMAIN get_fields(r, {tag}) |->
               get_subfields(get_fields(r, {tag})[i], codes)])

\* A wrong key, which C12 rules out: the digits without the prefix.
extract_strong_key_NoPrefix(r, validate) ==
    LET isbn == FirstAccepted(LAMBDA v : norm_isbn(v, validate),
                              CandidateValues(r, t020, {"a", "z"}))
        issn == FirstAccepted(LAMBDA v : norm_issn(v, validate),
                              CandidateValues(r, t022, {"a", "y", "z"}))
    IN  IF isbn # None THEN isbn ELSE issn

\* A wrong key, which C23 rules out: the ISSN fields are tried first.
extract_strong_key_IssnFirst(r, validate) ==
    LET isbn == FirstAccepted(LAMBDA v : norm_isbn(v, validate),
                              CandidateValues(r, t020, {"a", "z"}))
        issn == FirstAccepted(LAMBDA v : norm_issn(v, validate),
                              CandidateValues(r, t022, {"a", "y", "z"}))
    IN  IF issn # None THEN <<"I", "S", "S", "N", ":">> \o issn
        ELSE IF isbn # None THEN <<"I", "S", "B", "N", ":">> \o isbn
        ELSE None

extract_strong_key(r, validate) ==
    LET isbn == FirstAccepted(LAMBDA v : norm_isbn(v, validate),
                              CandidateValues(r, t020, {"a", "z"}))
        issn == FirstAccepted(LAMBDA v : norm_issn(v, validate),
                              CandidateValues(r, t022, {"a", "y", "z"}))
    IN  IF isbn # None THEN <<"I", "S", "B", "N", ":">> \o isbn
        ELSE IF issn # None THEN <<"I", "S", "S", "N", ":">> \o issn
        ELSE None

(***************************************************************************)
(* Scoring (score_authorities, score_record) and choose_primary.           *)
(***************************************************************************)
StartsWith(s, p) == Len(s) >= Len(p) /\ SubSeq(s, 1, Len(p)) = p
Drop(s, n) == SubSeq(s, n + 1, Len(s))
\* \d+ : one digit or more, and nothing else
Digits1(s) == s # <<>> /\ AllDigits(s)
\* :? *  : an optional colon, then any number of spaces, skipped
SkipColonSpaces(s) ==
    LET a == IF s # <<>> /\ Head(s) = ":" THEN Tail(s) ELSE s
        RECURSIVE SkipSp(_)
        SkipSp(x) == IF x # <<>> /\ Head(x) = " " THEN SkipSp(Tail(x)) ELSE x
    IN  SkipSp(a)
\* .+ : one character or more, none of them a line break
Any1(s) == s # <<>> /\ \A i \in DOMAIN s : s[i] # "\n"

\* AUTH_PATTERNS, matched (re.I) against the lower-cased, stripped value.
MatchVVIAF(v) ==
    \/ StartsWith(v, <<"v", "i", "a", "f">>) /\ Digits1(SkipColonSpaces(Drop(v, 4)))
    \/ Len(v) = 8 /\ AllDigits(v)
MatchISNI(v) ==
    /\ StartsWith(v, <<"i", "s", "n", "i">>)
    /\ LET d == SkipColonSpaces(Drop(v, 4))
       IN  /\ Len(d) = 16
           /\ AllDigits(SubSeq(d, 1, 15))
           /\ (isdigit(d[16]) \/ d[16] = "x")
MatchWD(v) ==
    \/ StartsWith(v, <<"w", "d", ":", "q">>) /\ Digits1(Drop(v, 4))
    \/ StartsWith(v, <<"w", "i", "k", "i", "d", "a", "t", "a", ":", "q">>)
         /\ Digits1(Drop(v, 10))
MatchBNE(v) == StartsWith(v, <<"b", "n", "e", ":">>) /\ Any1(Drop(v, 4))
MatchLEMAC(v) == StartsWith(v, <<"l", "e", "m", "a", "c", ":">>) /\ Any1(Drop(v, 6))
MatchCANTIC(v) == StartsWith(v, <<"c", "a", "n", "t", "i", "c", ":">>) /\ Any1(Drop(v, 7))

\* AUTH_SCORES of the first pattern that matches, in the dict's order.
AuthScore(v) ==
    LET v2 == strip(MapSeq(lower, v))
    IN  IF MatchVVIAF(v2) THEN 6
        ELSE IF MatchISNI(v2) THEN 6
        ELSE IF MatchWD(v2) THEN 5
        ELSE IF MatchBNE(v2) THEN 4
        ELSE IF MatchLEMAC(v2) THEN 4
        ELSE IF MatchCANTIC(v2) THEN 4
        ELSE 2

\* int(f.tag); -1 when int() raises.
TagNumber(tag) ==
    IF tag # <<>> /\ AllDigits(tag)
    THEN LET RECURSIVE Val(_)
             Val(d) == IF d = <<>> THEN 0 ELSE 10 * Val(SubSeq(d, 1, Len(d) - 1)) + int(d[Len(d)])
         IN  Val(tag)
    ELSE -1

IsHeadingTag(tag) ==
    LET n == TagNumber(tag)
    IN  (100 <= n /\ n <= 111) \/ (600 <= n /\ n <= 699) \/ (700 <= n /\ n <= 799)

score_authorities(r) ==
    Sum([i \in DOMAIN r |->
           IF IsHeadingTag(r[i].tag)
           THEN Sum(MapSeq(AuthScore, get_subfields(r[i], {"9"})))
           ELSE 0])

NonBlank(ind) == ind \notin {" ", ""}

\* A wrong score, which C37 rules out: the 245 bonus is given for every 245
\* field.
score_record_PerField(r) ==
    LET f008 == get_fields(r, {t008})
    IN    15 * Len(get_fields(r, {t245}))
        + (IF get_fields(r, {t260}) # <<>> \/ get_fields(r, {t264}) # <<>> THEN 10 ELSE 0)
        + (IF get_fields(r, {t100}) # <<>> \/ get_fields(r, {t110}) # <<>>
              \/ get_fields(r, {t111}) # <<>> THEN 8 ELSE 0)
        + (IF get_fields(r, {t020}) # <<>> THEN 12 ELSE 0)
        + (IF get_fields(r, {t022}) # <<>> THEN 10 ELSE 0)
        + (IF get_fields(r, {t300}) # <<>> THEN 4 ELSE 0)
        + (IF f008 # <<>> /\ Len(f008[1].data) >= 40 THEN 15 ELSE 0)
        + Sum([i \in DOMAIN r |-> (IF NonBlank(r[i].indicator1) THEN 1 ELSE 0)
                                  + (IF NonBlank(r[i].indicator2) THEN 1 ELSE 0)])
        + score_authorities(r)

score_record(r) ==
    LET f008 == get_fields(r, {t008})
    IN    (IF get_fields(r, {t245}) # <<>> THEN 15 ELSE 0)
        + (IF get_fields(r, {t260}) # <<>> \/ get_fields(r, {t264}) # <<>> THEN 10 ELSE 0)
        + (IF get_fields(r, {t100}) # <<>> \/ get_fields(r, {t110}) # <<>>
              \/ get_fields(r, {t111}) # <<>> THEN 8 ELSE 0)
        + (IF get_fields(r, {t020}) # <<>> THEN 12 ELSE 0)
        + (IF get_fields(r, {t022}) # <<>> THEN 10 ELSE 0)
        + (IF get_fields(r, {t300}) # <<>> THEN 4 ELSE 0)
        + (IF f008 # <<>> /\ Len(f008[1].data) >= 40 THEN 15 ELSE 0)
        + Sum([i \in DOMAIN r |-> (IF NonBlank(r[i].indicator1) THEN 1 ELSE 0)
                                  + (IF NonBlank(r[i].indicator2) THEN 1 ELSE 0)])
        + score_authorities(r)

\* A SourceRecord.
SourceRecord(lib, local_id, record, strong_key, fuzzy_key) ==
    [lib |-> lib, local_id |-> local_id, record |-> record,
     strong_key |-> strong_key, fuzzy_key |-> fuzzy_key]

\* maxsc = max(s for _, s in scored)
MaxScore(members) ==
    LET sc == {score_record(members[i].record) : i \in DOMAIN members}
    IN  CHOOSE m \in sc : \A x \in sc : x <= m
\* best = [m for m, s in scored if s == maxsc], as positions in members
BestPositions(members) ==
    SelectSeq([i \in DOMAIN members |-> i],
              LAMBDA i : score_record(members[i].record) = MaxScore(members))
\* for lib in prefer: for m in best: if m.lib == lib: return m
RECURSIVE FirstPreferred(_, _, _)
FirstPreferred(members, best, libs) ==
    IF libs = <<>> THEN best[1]
    ELSE LET hit == SelectSeq(best, LAMBDA i : members[i].lib = Head(libs))
         IN  IF hit # <<>> THEN hit[1] ELSE FirstPreferred(members, best, Tail(libs))
\* A wrong choose_primary, which C8 rules out: the preferred source is looked up among all
\* the members, not among the maximal scorers.
choose_primary_AnyScore(members, pref) ==
    FirstPreferred(members, [i \in DOMAIN members |-> i], pref)

\* The position in members of the member choose_primary returns.
choose_primary(members, pref) == FirstPreferred(members, BestPositions(members), pref)

(***************************************************************************)
(* merge_cluster.                                                          *)
(***************************************************************************)
\* str(n) for n >= 0
RECURSIVE str(_)
str(n) == IF n < 10 THEN <<DigitChars[n + 1]>> ELSE str(n \div 10) \o <<DigitChars[(n % 10) + 1]>>

\* sorted(a set of strings)
RECURSIVE SortedSet(_)
SortedSet(S) ==
    IF S = {} THEN <<>>
    ELSE LET m == CHOOSE x \in S : \A y \in S : ~StrLess(y, x)
         IN  <<m>> \o SortedSet(S \ {m})

\* The provenance field and the holdings field appended for one member.
ProvField(tag, m) ==
    Field(tag, " ", " ", <<Subf("a", <<"(">> \o m.lib \o <<")">> \o m.local_id)>>)
HoldField(tag, m) ==
    Field(tag, " ", " ",
          <<Subf("a", m.lib)>> \o (IF m.local_id # <<>> THEN <<Subf("b", m.local_id)>> ELSE <<>>))

\* The records of the members as objects: heap[i] is the Record that
\* members[i].record refers to.  rec = primary.record is an alias, so the
\* merge writes to heap[prim] and reads every member's record through heap.
HeapOf(members) == [i \in DOMAIN members |-> members[i].record]

\* rec.add_field(f) for rec = primary.record
AddToRec(heap, prim, f) == [heap EXCEPT ![prim] = add_field(@, f)]

\* The first loop: one provenance and one holdings field per member, in
\* member order from member i on, appended to rec.
RECURSIVE Annotate(_, _, _, _, _, _)
Annotate(heap, prim, members, i, ptag, htag) ==
    IF i > Len(members) THEN heap
    ELSE Annotate(AddToRec(AddToRec(heap, prim, ProvField(ptag, members[i])),
                           prim, HoldField(htag, members[i])),
                  prim, members, i + 1, ptag, htag)

\* The position of the first member whose record has a field of the tag
\* (best_rec = sr.record), 0 when no member has one (best_rec = None).
DonorOf(heap, tag) ==
    LET has == SelectSeq([i \in DOMAIN heap |-> i],
                         LAMBDA i : get_fields(heap[i], {tag}) # <<>>)
    IN  IF has = <<>> THEN 0 ELSE has[1]

\* newf = Field(tag, [indicator1, indicator2], [Subfield(code, value) ...])
CopyField(f) ==
    Field(f.tag, f.indicator1, f.indicator2,
          [j \in DOMAIN f.subfields |-> Subf(f.subfields[j].code, f.subfields[j].value)])

\* Two wrong removals, which C7 and C10 rule out: nothing is removed;
\* the fields are removed from the donor's record instead of rec.
RemoveFromRec_Nothing(heap, prim, d, tag) == heap
RemoveFromRec_FromDonor(heap, prim, d, tag) == [heap EXCEPT ![d] = remove_fields(@, tag)]

\* for f in list(rec.get_fields(tag)): rec.remove_field(f)
RemoveFromRec(heap, prim, d, tag) == [heap EXCEPT ![prim] = remove_fields(@, tag)]

\* for f in best_rec.get_fields(tag): rec.add_field(copy of f); the donor's
\* fields are read from the heap as the removal left it.
CopyToRec(heap, prim, d, tag) ==
    [heap EXCEPT ![prim] = @ \o MapSeq(CopyField, get_fields(heap[d], {tag}))]

\* One pass of the preferred-fields loop, for one entry of the list.
DonateTag(heap, prim, entry) ==
    LET tag == strip(entry)
        d == DonorOf(heap, tag)
    IN  IF tag = <<>> THEN heap
        ELSE IF d = 0 THEN heap
        ELSE CopyToRec(RemoveFromRec(heap, prim, d, tag), prim, d, tag)

RECURSIVE Donate(_, _, _)
Donate(heap, prim, entries) ==
    IF entries = <<>> THEN heap
    ELSE Donate(DonateTag(heap, prim, Head(entries)), prim, Tail(entries))

\* The merge note.
MergeNote(tag, members) ==
    LET libs == {members[i].lib : i \in DOMAIN members}
        texto == <<"R", "e", "g", "i", "s", "t", "r", "o", " ", "c", "o", "l", "e", "c", "t", "i", "v", "o", " ", "d", "e", " ">> \o str(Len(members))
                 \o <<" ", "r", "e", "g", "i", "s", "t", "r", "o", "s", ".", " ", "B", "i", "b", "l", "i", "o", "t", "e", "c", "a", "s", ":", " ">>
                 \o Join(<<",", " ">>, SortedSet(libs))
    IN  Field(tag, " ", " ", <<Subf("a", texto)>>)

\* The members' records after merge_cluster, the primary being at prim.
MergedHeap(members, prim, pfields, ptag, htag, mtag) ==
    AddToRec(Donate(Annotate(HeapOf(members), prim, members, 1, ptag, htag),
                    prim, pfields),
             prim, MergeNote(mtag, members))

\* A wrong merge, which C38 rules out: without keep9 the fields of rec with
\* a tag that begins with 9 are dropped.
merge_cluster_Drop9xx(members, pref, pfields, ptag, htag, mtag, k9) ==
    LET prim == choose_primary(members, pref)
        heap == MergedHeap(members, prim, pfields, ptag, htag, mtag)
        kept == IF k9 THEN heap
                ELSE [heap EXCEPT ![prim] = SelectSeq(@, LAMBDA f : f.tag[1] # "9")]
    IN  [primary |-> prim, heap |-> kept, rec |-> kept[prim]]

\* merge_cluster: the position of the primary, the members' records when it
\* returns, and the record it returns (rec).
merge_cluster(members, pref, pfields, ptag, htag, mtag, k9) ==
    LET prim == choose_primary(members, pref)
        heap == MergedHeap(members, prim, pfields, ptag, htag, mtag)
    IN  [primary |-> prim, heap |-> heap, rec |-> heap[prim]]

(***************************************************************************)
(* Inputs of the model: source labels, records, configurations.            *)
(***************************************************************************)
LIB1 == <<"L", "I", "B", "1">>
LIB2 == <<"L", "I", "B", "2">>
LIB3 == <<"L", "I", "B", "3">>

Isbn13 == <<"9", "7", "8", "0", "3", "0", "6", "4", "0", "6", "1", "5", "7">>
Isbn10 == <<"0", "3", "0", "6", "4", "0", "6", "1", "5", "2">>
Isbn13Hyphens == <<"9", "7", "8", "-", "0", "-", "3", "0", "6", "-", "4", "0", "6", "1", "5", "-", "7">>

Plain(tag, code, value) == Field(tag, " ", " ", <<Subf(code, value)>>)

\* The records a source file may hold in a clustering run.
RecIsbnA == <<ControlField(t001, <<"A", "1">>), Plain(t020, "a", Isbn13),
              Field(t245, "1", "0", <<Subf("a", <<"x", "y">>)>>)>>
RecIsbnB == <<Plain(t020, "a", Isbn13Hyphens),
              Field(t245, "0", "0", <<Subf("a", <<"X", "y", ".">>)>>),
              Plain(t999, "c", <<" ", "B", "7", " ">>)>>
RecAB    == <<Field(t245, "1", "0", <<Subf("a", <<"b", " ", "A">>)>>)>>
RecABC   == <<Field(t245, "1", "0", <<Subf("a", <<"a", " ", "b">>), Subf("b", <<"c">>)>>)>>
RecBC    == <<Field(t245, "1", "0", <<Subf("a", <<"b", ",", " ", "c">>)>>)>>
\* 13 digits in the ISSN field: a strong key only without checksum
\* enforcement; no author, title or year, so the fuzzy key is empty.
RecIssn  == <<Plain(t022, "a", Isbn13), Plain(t300, "a", <<"1", "0", " ", "p", ".">>)>>
RecordPool == {RecIsbnA, RecIsbnB, RecAB, RecABC, RecBC, RecIssn}
\* Two more records for the files of a run of main: the ISBN of RecIsbnA
\* with the title of RecBC, and the title of RecIsbnA with the ISBN-10 of
\* the same book.
RecIsbnBC == <<Plain(t020, "a", Isbn13),
               Field(t245, "1", "0", <<Subf("a", <<"b", " ", "c">>)>>)>>
RecIsbn10 == <<Plain(t020, "a", Isbn10),
               Field(t245, "1", "0", <<Subf("a", <<"x", "y">>)>>)>>
MainPool == {RecIsbnBC, RecIsbn10}

\* The thresholds of the model: 0, and a score two keys of the pool reach
\* ("b a" against "a b c": 2*3/8 = 75) with the next integer.
Thresholds == {0, 75, 76}
\* (weak, use_fuzzy, strong_only): every threshold with the fuzzy pass on, and
\* the default threshold where the flags switch the fuzzy pass off (weak is
\* then never read).
ClusterConfigs ==
    {<<w, TRUE, FALSE>> : w \in Thresholds}
        \cup {<<92, TRUE, TRUE>>, <<92, FALSE, FALSE>>, <<92, FALSE, TRUE>>}

\* The members a cluster handed to merge_cluster may have: records of one
\* edition (the same ISBN), which build_clusters puts in one cluster.
MrgTitleOnly == <<Plain(t020, "a", Isbn13),
                  Field(t245, "1", "0", <<Subf("a", <<"x", "y">>)>>)>>
MrgFull      == <<ControlField(t001, <<"B", "7">>), Plain(t020, "a", Isbn13Hyphens),
                  Field(t245, "0", "4", <<Subf("a", <<"X", "y", ".">>), Subf("b", <<"z">>)>>),
                  Field(t260, " ", " ", <<Subf("b", <<"e", "d">>), Subf("c", <<"1", "9", "9", "9">>)>>)>>
MrgOwn035    == <<Plain(t020, "a", Isbn13),
                  Plain(t035, "a", <<"(", "O", "C", "o", "L", "C", ")", "1">>),
                  Plain(t260, "c", <<"c", "1", "9", "9", "9">>), Plain(t300, "a", <<"1", "0", " ", "p", ".">>)>>
MrgTwoTitles == <<Plain(t020, "z", Isbn13),
                  Field(t100, "1", " ", <<Subf("a", <<"a", "b">>), Subf("9", <<"V", "I", "A", "F", ":", " ", "1", "2">>)>>),
                  Field(t245, "1", "0", <<Subf("a", <<"x", "y">>)>>),
                  Field(t245, "1", "3", <<Subf("a", <<"x">>), Subf("b", <<"y">>)>>)>>
MergePool == {MrgTitleOnly, MrgFull, MrgOwn035, MrgTwoTitles}

PreferChoices == {<<>>, <<LIB2>>, <<LIB3, LIB2, LIB1>>}
PreferFieldsChoices ==
    {<<t245, t260, t264>>, <<t035, t910>>, <<<<" ">> \o t245, <<" ">>, t260, t245>>}
\* (provenance tag, holdings tag, merge-note tag): the defaults, and a merge
\* note that shares the title tag.
TagChoices == {<<t035, t910, t948>>, <<t035, t910, t245>>}

(***************************************************************************)
(* The keys, local ids and scores of the model's records, tabulated: each  *)
(* entry is the value the function of the code returns for that record.    *)
(***************************************************************************)
Records == RecordPool \cup MergePool \cup MainPool
StrongKeyOf == [v \in BOOLEAN |-> [r \in Records |-> extract_strong_key(r, v)]]
FuzzyKeyOf == [r \in Records |-> build_fuzzy_key(r)]
LocalIdOf == [r \in Records |-> get_local_id(r)]

(***************************************************************************)
(* fuzz.token_sort_ratio.                                                  *)
(***************************************************************************)
Max(a, b) == IF a >= b THEN a ELSE b

\* One row of the longest-common-subsequence table: prev and the result hold
\* columns 0..Len(t) at positions 1..Len(t)+1.
RECURSIVE LcsRow(_, _, _, _)
LcsRow(prev, a, t, cur) ==
    IF Len(cur) = Len(t) + 1 THEN cur
    ELSE LET j == Len(cur)
         IN  LcsRow(prev, a, t,
                    Append(cur, IF a = t[j] THEN prev[j] + 1 ELSE Max(prev[j + 1], cur[j])))
RECURSIVE LcsFrom(_, _, _, _)
LcsFrom(s, t, i, prev) ==
    IF i > Len(s) THEN prev[Len(t) + 1]
    ELSE LcsFrom(s, t, i + 1, LcsRow(prev, s[i], t, <<0>>))
Lcs(s, t) == LcsFrom(s, t, 1, [j \in 1..(Len(t) + 1) |-> 0])

\* fuzz.ratio: the normalised Indel similarity 100 * 2*lcs / (len1 + len2), a
\* float.  It is kept in hundredths of a point, rounded down, which orders
\* the scores of keys shorter than 100 characters exactly as the floats are
\* ordered, among themselves and against an integer threshold.
ratio(s, t) ==
    IF Len(s) + Len(t) = 0 THEN 10000 ELSE (20000 * Lcs(s, t)) \div (Len(s) + Len(t))

\* The tokens of both strings are sorted and joined by one space.
token_sort_ratio(s, t) ==
    ratio(Join(<<" ">>, sorted(split(s))), Join(<<" ">>, sorted(split(t))))

(***************************************************************************)
(* Python dict (insertion ordered): a sequence of [key, val] entries.      *)
(***************************************************************************)
DictKeys(d) == {d[i].key : i \in DOMAIN d}
DictHas(d, k) == k \in DictKeys(d)
DictGet(d, k) == d[CHOOSE i \in DOMAIN d : d[i].key = k].val
\* d[k] = v: an existing key keeps its place, a new key goes last.
DictSet(d, k, v) ==
    IF DictHas(d, k)
    THEN [i \in DOMAIN d |-> IF d[i].key = k THEN [key |-> k, val |-> v] ELSE d[i]]
    ELSE Append(d, [key |-> k, val |-> v])

(***************************************************************************)
(* build_clusters: one iteration of the record loop.                       *)
(***************************************************************************)
Cluster(id) == [id |-> id, members |-> <<>>, strong_keys |-> {}, fuzzy_keys |-> {}]

\* The fuzzy scan: for key, cluster in fuzzy_index.items(), from entry i on,
\* with the best score and cluster so far.
RECURSIVE ScanFrom(_, _, _, _, _)
ScanFrom(index, fk, i, sc0, c0) ==
    IF i > Len(index) THEN [best_sc |-> sc0, best_cluster |-> c0]
    ELSE LET sc == token_sort_ratio(fk, index[i].key)
         IN  IF sc > sc0 THEN ScanFrom(index, fk, i + 1, sc, index[i].val)
             ELSE ScanFrom(index, fk, i + 1, sc0, c0)
\* A wrong scan, which C27 rules out: the entries are taken last first.
Scan_LastFirst(index, fk) ==
    ScanFrom([i \in DOMAIN index |-> index[Len(index) + 1 - i]], fk, 1, 0, NoCluster)
\* A wrong scan, which C32 rules out: a key equal to the record's own is
\* passed over.
Scan_NotItself(index, fk) ==
    ScanFrom(SelectSeq(index, LAMBDA e : e.key # fk), fk, 1, 0, NoCluster)
Scan(index, fk) == ScanFrom(index, fk, 1, 0, NoCluster)

\* best_sc >= weak, the score being in hundredths.
AtLeast(sc, w) == sc >= 100 * w

\* Whether the record takes the elif branch (the fuzzy scan).
Scans(sindex, sk, fk, fuzzy, sonly) ==
    ~(Truthy(sk) /\ DictHas(sindex, sk)) /\ fuzzy /\ ~sonly /\ Truthy(fk)

\* A wrong match, which C13 rules out: strong_only is not looked at.
Matched_IgnoreStrongOnly(sindex, findex, sk, fk, w, fuzzy, sonly) ==
    IF Truthy(sk) /\ DictHas(sindex, sk) THEN DictGet(sindex, sk)
    ELSE IF fuzzy /\ Truthy(fk)
    THEN Bind(Scan(findex, fk),
              LAMBDA b : IF b.best_cluster # NoCluster /\ AtLeast(b.best_sc, w)
                         THEN b.best_cluster ELSE NoCluster)
    ELSE NoCluster

\* Three wrong matches, which C26, C29 and C30 rule out: the fuzzy scan goes
\* before the Strong Index; the Strong Index is not looked at; a record with
\* a strong key is never matched by the fuzzy scan.
Matched_FuzzyFirst(sindex, findex, sk, fk, w, fuzzy, sonly) ==
    LET b == IF fuzzy /\ ~sonly /\ Truthy(fk) THEN Scan(findex, fk)
             ELSE [best_sc |-> 0, best_cluster |-> NoCluster]
    IN  IF b.best_cluster # NoCluster /\ AtLeast(b.best_sc, w) THEN b.best_cluster
        ELSE IF Truthy(sk) /\ DictHas(sindex, sk) THEN DictGet(sindex, sk)
        ELSE NoCluster
Matched_NoStrongHit(sindex, findex, sk, fk, w, fuzzy, sonly) ==
    IF fuzzy /\ ~sonly /\ Truthy(fk)
    THEN Bind(Scan(findex, fk),
              LAMBDA b : IF b.best_cluster # NoCluster /\ AtLeast(b.best_sc, w)
                         THEN b.best_cluster ELSE NoCluster)
    ELSE NoCluster
\* A wrong match, which C31 rules out: with the fuzzy pass
\* off, a record without a strong key joins the cluster of the last key of
\* the Strong Index.
Matched_KeylessJoinsLast(sindex, findex, sk, fk, w, fuzzy, sonly) ==
    IF Truthy(sk) /\ DictHas(sindex, sk) THEN DictGet(sindex, sk)
    ELSE IF fuzzy /\ ~sonly /\ Truthy(fk)
    THEN Bind(Scan(findex, fk),
              LAMBDA b : IF b.best_cluster # NoCluster /\ AtLeast(b.best_sc, w)
                         THEN b.best_cluster ELSE NoCluster)
    ELSE IF ~Truthy(sk) /\ sindex # <<>> THEN sindex[Len(sindex)].val
    ELSE NoCluster
Matched_KeyedNeverFuzzy(sindex, findex, sk, fk, w, fuzzy, sonly) ==
    IF Truthy(sk) /\ DictHas(sindex, sk) THEN DictGet(sindex, sk)
    ELSE IF fuzzy /\ ~sonly /\ Truthy(fk) /\ ~Truthy(sk)
    THEN Bind(Scan(findex, fk),
              LAMBDA b : IF b.best_cluster # NoCluster /\ AtLeast(b.best_sc, w)
                         THEN b.best_cluster ELSE NoCluster)
    ELSE NoCluster

\* The cluster the record is matched to, NoCluster when it matches none.
Matched(sindex, findex, sk, fk, w, fuzzy, sonly) ==
    IF Truthy(sk) /\ DictHas(sindex, sk) THEN DictGet(sindex, sk)
    ELSE IF fuzzy /\ ~sonly /\ Truthy(fk)
    THEN Bind(Scan(findex, fk),
              LAMBDA b : IF b.best_cluster # NoCluster /\ AtLeast(b.best_sc, w)
                         THEN b.best_cluster ELSE NoCluster)
    ELSE NoCluster

\* Three wrong index updates, which C11, C1 and C2 rule out: an empty fuzzy
\* key is indexed too; the strong index is never written; a fuzzy key is
\* indexed only for a cluster that has no key in the index yet, that is when
\* the cluster is created.
FuzzyIndexAfter_EmptyKeyToo(findex, fk, c) ==
    IF fk # None THEN DictSet(findex, fk, c) ELSE findex
StrongIndexAfter_Never(sindex, sk, c) == sindex
FuzzyIndexAfter_AtCreation(findex, fk, c) ==
    IF Truthy(fk) /\ c \notin {findex[i].val : i \in DOMAIN findex}
    THEN DictSet(findex, fk, c) ELSE findex

\* A wrong index update, which C28 rules out: a fuzzy key that is in the
\* index keeps the cluster it has.
FuzzyIndexAfter_KeepFirst(findex, fk, c) ==
    IF Truthy(fk) /\ ~DictHas(findex, fk) THEN DictSet(findex, fk, c) ELSE findex

\* strong_index[sk] = cl (when sk) and fuzzy_index[fk] = cl (when fk)
StrongIndexAfter(sindex, sk, c) == IF Truthy(sk) THEN DictSet(sindex, sk, c) ELSE sindex
FuzzyIndexAfter(findex, fk, c) == IF Truthy(fk) THEN DictSet(findex, fk, c) ELSE findex

\* A wrong append, which C15 rules out: the member goes to the front.
ClusterAfter_Prepend(c, m) ==
    [c EXCEPT !.members = <<m>> \o @,
              !.strong_keys = IF Truthy(m.strong_key) THEN @ \cup {m.strong_key} ELSE @,
              !.fuzzy_keys = IF Truthy(m.fuzzy_key) THEN @ \cup {m.fuzzy_key} ELSE @]

\* A wrong append, which C4 rules out: the member list is replaced.
ClusterAfter_Replace(c, m) ==
    [c EXCEPT !.members = <<m>>,
              !.strong_keys = IF Truthy(m.strong_key) THEN @ \cup {m.strong_key} ELSE @,
              !.fuzzy_keys = IF Truthy(m.fuzzy_key) THEN @ \cup {m.fuzzy_key} ELSE @]

\* cl.members.append(sr); cl.strong_keys.add(sk); cl.fuzzy_keys.add(fk)
ClusterAfter(c, m) ==
    [c EXCEPT !.members = Append(@, m),
              !.strong_keys = IF Truthy(m.strong_key) THEN @ \cup {m.strong_key} ELSE @,
              !.fuzzy_keys = IF Truthy(m.fuzzy_key) THEN @ \cup {m.fuzzy_key} ELSE @]

\* A wrong creation, which C14 rules out: the id runs ahead of next_id.
ClustersAfter_IdOfTotal(cs, c, m, nid) ==
    LET grown == IF c > Len(cs) THEN Append(cs, Cluster(Len(cs) + nid)) ELSE cs
    IN  [grown EXCEPT ![c] = ClusterAfter(@, m)]

\* The clusters list after the record went to the cluster at position c
\* (a new cluster with the next id when c is one past the end).
ClustersAfter(cs, c, m, nid) ==
    LET grown == IF c > Len(cs) THEN Append(cs, Cluster(nid)) ELSE cs
    IN  [grown EXCEPT ![c] = ClusterAfter(@, m)]

\* The state of a clustering run: the locals of build_clusters.
RunState(cs, sindex, findex, nid, tot) ==
    [clusters |-> cs, strong_index |-> sindex, fuzzy_index |-> findex,
     next_id |-> nid, total |-> tot]
EmptyRun == RunState(<<>>, <<>>, <<>>, 1, 0)

\* One iteration of the loop over the records, on the state st, for record r
\* of source lib, VALIDATE being validate.
Process(st, lib, r, validate, w, fuzzy, sonly) ==
    LET sk == StrongKeyOf[validate][r]
        fk == IF fuzzy THEN FuzzyKeyOf[r] ELSE None
        m == SourceRecord(lib, LocalIdOf[r], r, sk, fk)
    IN  Bind(Matched(st.strong_index, st.fuzzy_index, sk, fk, w, fuzzy, sonly),
             LAMBDA hit :
                LET c == IF hit = NoCluster THEN Len(st.clusters) + 1 ELSE hit
                IN  [st |-> RunState(ClustersAfter(st.clusters, c, m, st.next_id),
                                     StrongIndexAfter(st.strong_index, sk, c),
                                     FuzzyIndexAfter(st.fuzzy_index, fk, c),
                                     IF hit = NoCluster THEN st.next_id + 1 ELSE st.next_id,
                                     st.total + 1),
                     sr |-> m, cl |-> c])

(***************************************************************************)
(* The clustering run: build_clusters reading the sources in order.        *)
(***************************************************************************)
\* The paths of the source files.
PathA == <<"a", ".", "m", "r", "c">>
PathB == <<"b", ".", "m", "r", "c">>

\* No function is called on its own.
NoCall ==
    /\ fn = ""
    /\ arg = <<>>
    /\ res = None

\* No PerfMonitor: the monitor as __init__ leaves it, and nothing logged.
NoPhase ==
    /\ phase_counter = 0
    /\ log_perf = <<>>
    /\ phases = <<>>
    /\ raising = FALSE

\* The variables of main while build_clusters or merge_cluster is run on its
\* own: no command line, no file, nothing written, no exception.
NoMain ==
    /\ args = <<>>
    /\ files = <<>>
    /\ pos = 0
    /\ count = 0
    /\ union = <<>>
    /\ report = <<>>
    /\ manifest = <<>>
    /\ written = <<>>
    /\ error = None

\* The merge_cluster variables while no merge runs.
NoMerge ==
    /\ cluster = Cluster(0)
    /\ members0 = <<>>
    /\ prefer = <<>>
    /\ prefer_fields = <<>>
    /\ prov_tag = t035
    /\ hold_tag = t910
    /\ merge_tag = t948
    /\ keep9 = FALSE
    /\ primary = 0
    /\ rec = <<>>

Init ==
    /\ VALIDATE \in BOOLEAN
    /\ \E c \in ClusterConfigs :
         weak = c[1] /\ use_fuzzy = c[2] /\ strong_only = c[3]
    /\ sources = <<<<LIB1, PathA>>, <<LIB2, PathB>>>>
    /\ src = 1
    /\ pc = "reading"
    /\ clusters = <<>>
    /\ strong_index = <<>>
    /\ fuzzy_index = <<>>
    /\ next_id = 1
    /\ total = 0
    /\ stream = <<>>
    /\ sr = SourceRecord(<<>>, <<>>, <<>>, None, None)
    /\ cl = NoCluster
    /\ best_sc = 0
    /\ best_cluster = NoCluster
    /\ NoMerge
    /\ NoMain
    /\ NoCall
    /\ NoPhase

\* The locals of build_clusters as a RunState.
Run == RunState(clusters, strong_index, fuzzy_index, next_id, total)

\* The body of the record loop for record r of source lib: the locals of
\* build_clusters after lines 407-442.
Iteration(lib, r) ==
    \E p \in {Process(Run, lib, r, VALIDATE, weak, use_fuzzy, strong_only)} :
    \E scan \in {Scan(fuzzy_index, p.sr.fuzzy_key)} :
        /\ clusters' = p.st.clusters
        /\ strong_index' = p.st.strong_index
        /\ fuzzy_index' = p.st.fuzzy_index
        /\ next_id' = p.st.next_id
        /\ total' = p.st.total
        /\ stream' = Append(stream, p.sr)
        /\ sr' = p.sr
        /\ cl' = p.cl
        /\ IF Scans(strong_index, p.sr.strong_key, p.sr.fuzzy_key, use_fuzzy, strong_only)
           THEN best_sc' = scan.best_sc /\ best_cluster' = scan.best_cluster
           ELSE UNCHANGED <<best_sc, best_cluster>>

\* One iteration of "for i, r in enumerate(iter_records_mrc(path))" in a run
\* of build_clusters on its own: the reader yields record r of the source
\* being read.
ReadRecord(r) ==
    /\ pc = "reading"
    /\ total < MaxRecords
    /\ Iteration(sources[src][1], r)
    /\ UNCHANGED <<pvars, qvars, VALIDATE, weak, use_fuzzy, strong_only, sources, src, pc, mvars, avars>>

\* The reader of the current source is exhausted: on to the next source.
NextSource ==
    /\ pc = "reading"
    /\ src < Len(sources)
    /\ src' = src + 1
    /\ UNCHANGED <<pvars, qvars, VALIDATE, weak, use_fuzzy, strong_only, sources, pc, clusters,
                   strong_index, fuzzy_index, next_id, total, stream, sr, cl,
                   best_sc, best_cluster, mvars, avars>>

\* The last source is exhausted: build_clusters returns clusters.
Return ==
    /\ pc = "reading"
    /\ src = Len(sources)
    /\ pc' = "clustered"
    /\ UNCHANGED <<pvars, qvars, cvars, mvars, avars>>

Next ==
    \/ \E r \in RecordPool : ReadRecord(r)
    \/ NextSource
    \/ Return

Spec == Init /\ [][Next]_vars

(***************************************************************************)
(* The merge of one cluster: merge_cluster on a cluster build_clusters     *)
(* returned.                                                               *)
(***************************************************************************)
\* build_clusters over a whole input of <<lib, record>> pairs.
RECURSIVE RunOver(_, _, _, _, _, _)
RunOver(st, input, validate, w, fuzzy, sonly) ==
    IF input = <<>> THEN st
    ELSE RunOver(Process(st, Head(input)[1], Head(input)[2], validate, w, fuzzy, sonly).st,
                 Tail(input), validate, w, fuzzy, sonly)

\* The streams of 1..n records over the two sources, LIB1's records first.
Streams(pool, n) ==
    UNION {{s \in [1..k -> {LIB1, LIB2} \X pool] :
              \A i \in 1..(k - 1) : s[i][1] = LIB2 => s[i + 1][1] = LIB2} : k \in 1..n}

\* The clusters build_clusters returns for the streams of the merge pool,
\* with the default configuration (checksums enforced, threshold 92, fuzzy
\* matching).
MergeInputs ==
    UNION {Range(RunOver(EmptyRun, s, TRUE, 92, TRUE, FALSE).clusters) :
             s \in Streams(MergePool, MaxMembers)}

InitMerge ==
    /\ VALIDATE = TRUE
    /\ weak = 92
    /\ use_fuzzy = TRUE
    /\ strong_only = FALSE
    /\ sources = <<<<LIB1, PathA>>, <<LIB2, PathB>>>>
    /\ src = 2
    /\ pc = "merge"
    /\ clusters = <<>>
    /\ strong_index = <<>>
    /\ fuzzy_index = <<>>
    /\ next_id = 1
    /\ total = 0
    /\ stream = <<>>
    /\ sr = SourceRecord(<<>>, <<>>, <<>>, None, None)
    /\ cl = NoCluster
    /\ best_sc = 0
    /\ best_cluster = NoCluster
    /\ cluster \in MergeInputs
    /\ members0 = cluster.members
    /\ prefer \in PreferChoices
    /\ prefer_fields \in PreferFieldsChoices
    /\ \E tags \in TagChoices :
         prov_tag = tags[1] /\ hold_tag = tags[2] /\ merge_tag = tags[3]
    /\ keep9 \in BOOLEAN
    /\ primary = 0
    /\ rec = <<>>
    /\ NoMain
    /\ NoCall
    /\ NoPhase

\* merge_cluster(cluster, prefer, prefer_fields, prov_tag, hold_tag,
\* merge_tag, keep9): the primary's record is mutated in place and returned.
MergeCluster ==
    /\ pc = "merge"
    /\ LET m == merge_cluster(cluster.members, prefer, prefer_fields, prov_tag,
                              hold_tag, merge_tag, keep9)
       IN  /\ primary' = m.primary
           /\ rec' = m.rec
           /\ cluster' = [cluster EXCEPT
                            !.members = [i \in DOMAIN @ |->
                                           [@[i] EXCEPT !.record = m.heap[i]]]]
    /\ pc' = "merged"
    /\ UNCHANGED <<pvars, qvars, cvars, avars, members0, prefer, prefer_fields, prov_tag, hold_tag,
                   merge_tag, keep9>>

NextMerge == MergeCluster

SpecMerge == InitMerge /\ [][NextMerge]_vars

(***************************************************************************)
(* main: the command line, the sources, build_clusters over the files, and *)
(* the three writers.                                                      *)
(***************************************************************************)
Contains(s, ch) == \E i \in DOMAIN s : s[i] = ch
FirstIndex(s, ch) == CHOOSE i \in DOMAIN s : s[i] = ch /\ \A j \in 1..(i - 1) : s[j] # ch
LastIndex(s, ch) ==
    IF Contains(s, ch)
    THEN CHOOSE i \in DOMAIN s : s[i] = ch /\ \A j \in (i + 1)..Len(s) : s[j] # ch
    ELSE 0

\* s.split(sep): the pieces between the occurrences of the character sep
RECURSIVE SplitOn(_, _)
SplitOn(s, sep) ==
    IF ~Contains(s, sep) THEN <<s>>
    ELSE <<SubSeq(s, 1, FirstIndex(s, sep) - 1)>>
         \o SplitOn(SubSeq(s, FirstIndex(s, sep) + 1, Len(s)), sep)

\* [x.strip() for x in s.split(",") if x.strip()]
ParseList(s) ==
    SelectSeq([i \in DOMAIN SplitOn(s, ",") |-> strip(SplitOn(s, ",")[i])],
              LAMBDA x : x # <<>>)

\* The loop over a.src: a value without "=" is passed over, the others give
\* (lib.strip(), path.strip()) for lib, path = s.split("=", 1).
ParseSources(srcs) ==
    LET good == SelectSeq(srcs, LAMBDA s : Contains(s, "="))
    IN  [i \in DOMAIN good |->
           <<strip(SubSeq(good[i], 1, FirstIndex(good[i], "=") - 1)),
             strip(SubSeq(good[i], FirstIndex(good[i], "=") + 1, Len(good[i])))>>]

\* os.path.splitext(path)[1]: from the last dot of the file name, when a
\* character other than a dot comes before it in the file name.
splitext(path) ==
    LET slash == LastIndex(path, "/")
        dot == LastIndex(path, ".")
    IN  IF dot > slash /\ \E i \in (slash + 1)..(dot - 1) : path[i] # "."
        THEN SubSeq(path, dot, Len(path)) ELSE <<>>

\* ext in (".mrc", ".marc", ".dat", ".iso2709") for the lower-cased extension
Extensions ==
    {<<".", "m", "r", "c">>, <<".", "m", "a", "r", "c">>, <<".", "d", "a", "t">>,
     <<".", "i", "s", "o", "2", "7", "0", "9">>}
\* A wrong test, which C19 rules out: the extension is not lower-cased.
AcceptsPath_CaseSensitive(path) == splitext(path) \in Extensions
AcceptsPath(path) == MapSeq(lower, splitext(path)) \in Extensions

\* The ValueError of iter_records_mrc: its type and the conversion step its
\* message names.
NotMrcError == <<"ValueError", "convertir_xml_a_mrc.py">>

\* What the reader yields at one position of a file: a decoded record, or
\* None for a record it could not decode.
Entry(r) == [ok |-> TRUE, record |-> r]
BadEntry == [ok |-> FALSE, record |-> <<>>]

\* write_union: merge_cluster on every cluster in list order.
write_union(cs, pref, pfields, ptag, htag, mtag, k9) ==
    [k \in DOMAIN cs |-> merge_cluster(cs[k].members, pref, pfields, ptag, htag, mtag, k9)]

\* A wrong report, which C17 rules out: the size is the number of sources.
write_report_SizeOfLibs(cs) ==
    [header |-> <<"cluster_id", "size", "strong_keys", "libraries">>,
     rows |-> [k \in DOMAIN cs |->
                 <<cs[k].id,
                   Cardinality({cs[k].members[i].lib : i \in DOMAIN cs[k].members}),
                   Join(<<";">>, SortedSet(cs[k].strong_keys)),
                   Join(<<";">>, SortedSet({cs[k].members[i].lib : i \in DOMAIN cs[k].members}))>>]]

\* write_report: the header and one row per cluster.
write_report(cs) ==
    [header |-> <<"cluster_id", "size", "strong_keys", "libraries">>,
     rows |-> [k \in DOMAIN cs |->
                 <<cs[k].id,
                   Len(cs[k].members),
                   Join(<<";">>, SortedSet(cs[k].strong_keys)),
                   Join(<<";">>, SortedSet({cs[k].members[i].lib : i \in DOMAIN cs[k].members}))>>]]

\* write_json: one object per cluster.
write_json(cs) ==
    [k \in DOMAIN cs |->
       [cluster_id |-> cs[k].id,
        strong_keys |-> SortedSet(cs[k].strong_keys),
        members |-> [i \in DOMAIN cs[k].members |->
                       [lib |-> cs[k].members[i].lib,
                        local_id |-> cs[k].members[i].local_id]]]]

(***************************************************************************)
(* A run of main: inputs.                                                  *)
(***************************************************************************)
PathXml == <<"b", ".", "x", "m", "l">>
PathUpper == <<"b", ".", "M", "A", "R", "C">>
Paths == {PathA, PathB, PathXml, PathUpper}

\* The defaults of build_parser (--src, --out and --report are required;
\* the output paths are not modelled).
build_parser ==
    [src |-> <<>>, prefer |-> <<>>,
     prefer_fields |-> Join(<<",">>, <<t245, t260, t264>>),
     provenance_tag |-> t035, holdings_tag |-> t910, merge_note_tag |-> t948,
     keep_9xx |-> FALSE, no_fuzzy |-> FALSE, weak_threshold |-> 92,
     strong_only |-> FALSE, no_checksum |-> FALSE, clusters_json |-> None]

\* The --src values: two well-formed ones; a first one without "="; a second
\* one with an extension that is not accepted; blanks around label and path
\* and an upper-case extension.
SrcChoices ==
    {<<LIB1 \o <<"=">> \o PathA, LIB2 \o <<"=">> \o PathB>>,
     <<LIB1, LIB2 \o <<"=">> \o PathB>>,
     <<LIB1 \o <<"=">> \o PathA, LIB2 \o <<"=">> \o PathXml>>,
     <<<<" ">> \o LIB2 \o <<" ", "=", " ">> \o PathUpper \o <<" ">>, LIB1 \o <<"=">> \o PathA>>}

\* The other options: the defaults with a manifest; no fuzzy pass; no
\* checksums, threshold 75 and no manifest; strong-only with preferred
\* sources and fields.
JsonPath == <<"c", ".", "j", "s", "o", "n">>
OptionChoices ==
    {[build_parser EXCEPT !.clusters_json = JsonPath],
     [build_parser EXCEPT !.clusters_json = JsonPath, !.no_fuzzy = TRUE],
     [build_parser EXCEPT !.no_checksum = TRUE, !.weak_threshold = 75],
     [build_parser EXCEPT !.clusters_json = JsonPath, !.strong_only = TRUE,
                          !.prefer = LIB2 \o <<",", " ", ",">> \o LIB1,
                          !.prefer_fields = <<" ">> \o t245 \o <<" ", ",", ",">> \o t035]}
ArgChoices == {[o EXCEPT !.src = sv] : o \in OptionChoices, sv \in SrcChoices}

\* What the files hold: the first every sequence of at most MaxFileLen
\* entries, the other ones one of three contents.
EntryPool == {Entry(RecIsbnA), Entry(RecIsbnB), Entry(RecAB), BadEntry}
FilesA == UNION {[1..n -> EntryPool] : n \in 0..MaxFileLen}
FilesB ==
    {<<>>, <<Entry(RecIsbnB)>>, <<BadEntry, Entry(RecABC)>>, <<Entry(RecIssn)>>,
     <<Entry(RecBC), Entry(RecIsbnBC)>>, <<Entry(RecIsbn10), Entry(RecIsbnB)>>}
FileSystems == {[p \in Paths |-> IF p = PathA THEN fa ELSE fb] : fa \in FilesA, fb \in FilesB}

(***************************************************************************)
(* A run of main: the steps.                                               *)
(***************************************************************************)
InitMain ==
    /\ args \in ArgChoices
    /\ files \in FileSystems
    /\ pc = "main"
    /\ VALIDATE = FALSE
    /\ weak = 0 /\ use_fuzzy = FALSE /\ strong_only = FALSE
    /\ sources = <<>>
    /\ src = 0
    /\ clusters = <<>>
    /\ strong_index = <<>>
    /\ fuzzy_index = <<>>
    /\ next_id = 1
    /\ total = 0
    /\ stream = <<>>
    /\ sr = SourceRecord(<<>>, <<>>, <<>>, None, None)
    /\ cl = NoCluster
    /\ best_sc = 0
    /\ best_cluster = NoCluster
    /\ NoMerge
    /\ pos = 0
    /\ count = 0
    /\ union = <<>>
    /\ report = <<>>
    /\ manifest = <<>>
    /\ written = <<>>
    /\ error = None
    /\ NoCall
    /\ NoPhase

\* main up to the call of build_clusters: VALIDATE, sources, prefer and
\* prefer_fields from the command line; build_clusters starts with its
\* parameters bound and its locals initialised.
ParseArgs ==
    /\ pc = "main"
    /\ VALIDATE' = ~args.no_checksum
    /\ sources' = ParseSources(args.src)
    /\ prefer' = ParseList(args.prefer)
    /\ prefer_fields' = ParseList(args.prefer_fields)
    /\ prov_tag' = args.provenance_tag
    /\ hold_tag' = args.holdings_tag
    /\ merge_tag' = args.merge_note_tag
    /\ keep9' = args.keep_9xx
    /\ weak' = args.weak_threshold
    /\ use_fuzzy' = ~args.no_fuzzy
    /\ strong_only' = args.strong_only
    /\ src' = 1
    /\ pc' = "source"
    /\ UNCHANGED <<pvars, qvars, clusters, strong_index, fuzzy_index, next_id, total, stream, sr, cl,
                   best_sc, best_cluster, cluster, members0, primary, rec, avars>>

\* "for lib, path in sources" reaches a source and iter_records_mrc(path) is
\* started: a path whose extension is not accepted raises ValueError, which
\* nothing catches.
OpenSource ==
    /\ pc = "source"
    /\ src <= Len(sources)
    /\ IF AcceptsPath(sources[src][2])
       THEN pc' = "records" /\ pos' = 1 /\ count' = 0 /\ error' = error
       ELSE pc' = "failed" /\ error' = NotMrcError /\ UNCHANGED <<pos, count>>
    /\ UNCHANGED <<pvars, qvars, cvars, mvars, args, files, union, report, manifest, written>>

\* The reader gives its next entry: a decoded record goes through the loop
\* body, None is passed over by "if rec".
ReadEntry ==
    /\ pc = "records"
    /\ pos <= Len(files[sources[src][2]])
    /\ pos' = pos + 1
    /\ IF files[sources[src][2]][pos].ok
       THEN /\ Iteration(sources[src][1], files[sources[src][2]][pos].record)
            /\ count' = count + 1
       ELSE UNCHANGED <<clusters, strong_index, fuzzy_index, next_id, total, stream, sr,
                        cl, best_sc, best_cluster, count>>
    /\ UNCHANGED <<pvars, qvars, VALIDATE, weak, use_fuzzy, strong_only, sources, src, pc, mvars,
                   args, files, union, report, manifest, written, error>>

\* The reader is exhausted: on to the next source.
EndOfSource ==
    /\ pc = "records"
    /\ pos > Len(files[sources[src][2]])
    /\ src' = src + 1
    /\ pc' = "source"
    /\ UNCHANGED <<pvars, qvars, VALIDATE, weak, use_fuzzy, strong_only, sources, clusters,
                   strong_index, fuzzy_index, next_id, total, stream, sr, cl,
                   best_sc, best_cluster, mvars, avars>>

\* A wrong end of the source loop, which C33 rules out: build_clusters
\* returns once the first source has been read.
EndOfSources_AfterFirst ==
    /\ pc = "source"
    /\ src > 1
    /\ pc' = "clustered"
    /\ UNCHANGED <<pvars, qvars, cvars, mvars, avars>>

\* The sources are exhausted: build_clusters returns clusters.
EndOfSources ==
    /\ pc = "source"
    /\ src > Len(sources)
    /\ pc' = "clustered"
    /\ UNCHANGED <<pvars, qvars, cvars, mvars, avars>>

\* A wrong write_union, which C34 rules out: merging a cluster leaves its
\* members last first.
WriteUnion_MembersReversed ==
    /\ pc = "clustered"
    /\ \E m \in {write_union(clusters, prefer, prefer_fields, prov_tag, hold_tag,
                             merge_tag, keep9)} :
          /\ union' = [k \in DOMAIN m |-> m[k].rec]
          /\ clusters' = [k \in DOMAIN clusters |->
                            [clusters[k] EXCEPT
                               !.members =
                                  [i \in DOMAIN @ |->
                                     [clusters[k].members[Len(m[k].heap) + 1 - i] EXCEPT
                                        !.record = m[k].heap[Len(m[k].heap) + 1 - i]]]]]
    /\ written' = Append(written, "out")
    /\ pc' = "union_written"
    /\ UNCHANGED <<pvars, qvars, VALIDATE, weak, use_fuzzy, strong_only, sources, src, strong_index,
                   fuzzy_index, next_id, total, stream, sr, cl, best_sc, best_cluster,
                   mvars, args, files, pos, count, report, manifest, error>>

\* write_union: every cluster is merged, in list order, and its merged record
\* written; the primaries' records are mutated in place.
WriteUnion ==
    /\ pc = "clustered"
    /\ \E m \in {write_union(clusters, prefer, prefer_fields, prov_tag, hold_tag,
                             merge_tag, keep9)} :
          /\ union' = [k \in DOMAIN m |-> m[k].rec]
          /\ clusters' = [k \in DOMAIN clusters |->
                            [clusters[k] EXCEPT
                               !.members = [i \in DOMAIN @ |->
                                              [@[i] EXCEPT !.record = m[k].heap[i]]]]]
    /\ written' = Append(written, "out")
    /\ pc' = "union_written"
    /\ UNCHANGED <<pvars, qvars, VALIDATE, weak, use_fuzzy, strong_only, sources, src, strong_index,
                   fuzzy_index, next_id, total, stream, sr, cl, best_sc, best_cluster,
                   mvars, args, files, pos, count, report, manifest, error>>

\* write_report
WriteReport ==
    /\ pc = "union_written"
    /\ report' = write_report(clusters)
    /\ written' = Append(written, "report")
    /\ pc' = "report_written"
    /\ UNCHANGED <<pvars, qvars, cvars, mvars, args, files, pos, count, union, manifest, error>>

\* if a.clusters_json: write_json(clusters, a.clusters_json)
WriteJson ==
    /\ pc = "report_written"
    /\ Truthy(args.clusters_json)
    /\ manifest' = write_json(clusters)
    /\ written' = Append(written, "json")
    /\ pc' = "done"
    /\ UNCHANGED <<pvars, qvars, cvars, mvars, args, files, pos, count, union, report, error>>

\* No --clusters-json: main ends without a manifest.
NoJson ==
    /\ pc = "report_written"
    /\ ~Truthy(args.clusters_json)
    /\ pc' = "done"
    /\ UNCHANGED <<pvars, qvars, cvars, mvars, avars>>

NextMain ==
    \/ ParseArgs
    \/ OpenSource
    \/ ReadEntry
    \/ EndOfSource
    \/ EndOfSources
    \/ WriteUnion
    \/ WriteReport
    \/ WriteJson
    \/ NoJson

SpecMain == InitMain /\ [][NextMain]_vars

(***************************************************************************)
(* The functions of the identifier and text layer, each called on its own. *)
(***************************************************************************)
\* Longest text handed to normalize_text.
MaxTextLen == 3

\* The characters of the texts handed to normalize_text: an upper-case and a
\* lower-case letter, a blank, a tab, a punctuation character, an accented
\* capital and a letter unidecode writes as two.
TextChars == {"A", "b", " ", "\t", ",", "U+00C1", "U+00DF"}
Texts == UNION {[1..n -> TextChars] : n \in 0..MaxTextLen} \cup {None}

\* The value of a character of an ISBN or ISSN, X being ten.
CheckValue(ch) == IF ch = "X" THEN 10 ELSE int(ch)
CheckChars == DigitSet \cup {"X"}
\* The strings that differ from v in exactly one position: a digit for a
\* digit, and in the last position any of the characters in last.
OneChanged(v, last) ==
    UNION {{[v EXCEPT ![i] = c] : c \in (IF i = Len(v) THEN last ELSE DigitSet)} :
             i \in DOMAIN v} \ {v}

\* The check equations of the standards: the weighted sum of all characters
\* is a multiple of 11 (ISBN-10, weights 10 down to 1; ISSN, weights 8 down
\* to 1) or of 10 (ISBN-13, weights 1 and 3 in turn).
Isbn10Equation(d) == Sum([i \in 1..10 |-> (11 - i) * CheckValue(d[i])]) % 11 = 0
Isbn13Equation(d) == Sum([i \in 1..13 |-> (IF i % 2 = 1 THEN 1 ELSE 3) * CheckValue(d[i])]) % 10 = 0
IssnEquation(d) == Sum([i \in 1..8 |-> (9 - i) * CheckValue(d[i])]) % 11 = 0
\* The numbers made of a prefix, one more digit and the check character that
\* satisfies the equation.
Completed(prefixes, last, Equation(_)) ==
    UNION {UNION {{p \o <<x, c>> : c \in {c \in last : Equation(p \o <<x, c>>)}} :
                    x \in DigitSet} : p \in prefixes}

\* ISBN-10 numbers: the official example 0-306-40615-2 and 0-8044-2957-X with
\* every ninth digit, each with the check character that makes up the number.
Isbn10Prefixes == {<<"0", "3", "0", "6", "4", "0", "6", "1">>, <<"0", "8", "0", "4", "4", "2", "9", "5">>}
Isbn10Vectors == Completed(Isbn10Prefixes, CheckChars, Isbn10Equation)
\* ISBN-13 numbers: 978-0-306-40615-7 and a 979 number with every twelfth
\* digit.
Isbn13Prefixes == {<<"9", "7", "8", "0", "3", "0", "6", "4", "0", "6", "1">>, <<"9", "7", "9", "1", "2", "3", "4", "5", "6", "7", "8">>}
Isbn13Vectors == Completed(Isbn13Prefixes, DigitSet, Isbn13Equation)
\* ISSN numbers: 0378-5955 and 2434-561X with every seventh digit.
IssnPrefixes == {<<"0", "3", "7", "8", "5", "9">>, <<"2", "4", "3", "4", "5", "6">>}
IssnVectors == Completed(IssnPrefixes, CheckChars, IssnEquation)

\* The subfield values handed to norm_isbn and norm_issn: numbers of every
\* length from none to fourteen characters, with and without hyphens, with a
\* qualifier, with a wrong check digit.
Candidates ==
    {<<>>, <<"p", "b", "k">>, <<"1", "2", "3", "4", "5">>, <<"3", "7", "8", "-", "5", "9", "5", "5">>, <<"0", "3", "7", "8", "-", "5", "9", "5", "5">>, <<"0", "3", "7", "8", "-", "5", "9", "5", "0">>, <<"2", "4", "3", "4", "-", "5", "6", "1", "x">>, <<"0", "3", "0", "6", "4", "0", "6", "1", "5">>, <<"0", "-", "3", "0", "6", "-", "4", "0", "6", "1", "5", "-", "2">>, <<"0", "3", "0", "6", "4", "0", "6", "1", "5", "3">>, <<"0", "3", "0", "6", "4", "0", "6", "1", "5", "2", "2">>,
     Isbn13, Isbn13Hyphens, Isbn13 \o <<"0">>, <<"0", "3", "7", "8", "-", "5", "9", "5", "5", " ", "(", "o", "n", "l", "i", "n", "e", ")">>}

\* The records handed to extract_strong_key: ISBN and ISSN candidates in
\* several fields and subfields, accepted and rejected, in both field orders.
Wrong13 == <<"9", "7", "8", "0", "3", "0", "6", "4", "0", "6", "1", "5", "8">>
Issn == <<"0", "3", "7", "8", "-", "5", "9", "5", "5">>
WrongIssn == <<"0", "3", "7", "8", "-", "5", "9", "5", "0">>
KeyRecords ==
    {<<>>,
     <<Plain(t245, "a", <<"x">>)>>,
     <<Plain(t020, "a", Isbn13)>>,
     <<Plain(t022, "a", Issn)>>,
     <<Plain(t020, "a", Isbn13), Plain(t022, "a", Issn)>>,
     <<Plain(t022, "a", Issn), Plain(t020, "a", Isbn10)>>,
     <<Field(t020, " ", " ", <<Subf("a", Wrong13), Subf("z", Isbn10)>>), Plain(t022, "a", Issn)>>,
     <<Field(t020, " ", " ", <<Subf("z", Isbn10), Subf("c", Isbn13), Subf("a", Isbn13)>>)>>,
     <<Plain(t020, "a", <<"p", "b", "k">>), Plain(t020, "a", Isbn13Hyphens), Plain(t020, "a", Isbn10)>>,
     <<Plain(t020, "a", Wrong13), Plain(t022, "a", Issn)>>,
     <<Plain(t020, "q", Isbn13), Field(t022, " ", " ", <<Subf("a", WrongIssn), Subf("l", Isbn10), Subf("y", Issn)>>)>>,
     <<Plain(t020, "a", Wrong13), Plain(t022, "a", WrongIssn)>>,
     <<Plain(t022, "a", <<"3", "7", "8", "-", "5", "9", "5", "5">>)>>,
     <<Plain(t020, "a", Wrong13), Field(t022, " ", " ", <<Subf("a", <<"3", "7", "8", "-", "5", "9", "5", "0">>), Subf("y", <<"3", "7", "8", "-", "5", "9", "5", "5">>)>>)>>}

\* The records handed to extract_year: a 260 field, then a 264 field, then
\* 008 fields, each present or not; the $c values hold a year alone, a year
\* among other characters, four digits that are not next to each other, and
\* fewer than four digits; the 008 data is too short, has digits at
\* positions 7 to 10, or has other characters there.
DateValues ==
    {<<"1", "9", "9", "9">>,
     <<"c", "1", "9", "9", "9", ".">>,
     <<"1", "9", "-", "9", "9">>,
     <<"1", "9", "9">>,
     <<"[", "2", "0", "0", "5", "]">>,
     <<"v", "2", " ", "1", "9", "8", "5">>}
Dates(tag) ==
    {<<>>, <<Field(tag, " ", " ", <<Subf("c", <<"1", "9", "9">>), Subf("a", <<"2", "0", "0", "1">>), Subf("c", <<"[", "2", "0", "0", "5", "]">>)>>)>>}
        \cup {<<Plain(tag, "c", v)>> : v \in DateValues}
Data008 ==
    {<<>>,
     <<ControlField(t008, <<"8", "5", "0", "1", "0", "1", "s", "1", "9", "8">>)>>,
     <<ControlField(t008, <<"8", "5", "0", "1", "0", "1", "s", "1", "9", "8", "5">>)>>,
     <<ControlField(t008, <<"8", "5", "0", "1", "0", "1", "s", "1", "9", "u", "u", " ", " ">>)>>,
     <<ControlField(t008, <<"8", "5", "0", "1", "0", "1", "s", "1", "9", "8">>), ControlField(t008, <<"8", "5", "0", "1", "0", "1", "s", "1", "9", "8", "5">>)>>}
YearRecords == {a \o b \o c : a \in Dates(t260), b \in Dates(t264), c \in Data008}

\* ISSN strings of seven characters: the numbers of IssnVectors that begin
\* with 0, without it, and 378-5955 with one character changed; strings of
\* other lengths; strings with an X or a letter among the first seven.
ShortIssnVectors ==
    {Tail(v) : v \in {w \in IssnVectors : w[1] = "0"}}
        \cup OneChanged(<<"3", "7", "8", "5", "9", "5", "5">>, CheckChars)
OddIssnStrings ==
    {<<>>, <<"7", "8", "5", "9", "5", "5">>, <<"0", "0", "3", "7", "8", "5", "9", "5", "5">>, <<"0", "0", "0", "3", "7", "8", "5", "9", "5", "5">>,
     <<"3", "7", "X", "5", "9", "5", "5">>, <<"3", "7", "8", "5", "a", "5", "5">>, <<"0", "3", "X", "8", "5", "9", "5", "5">>, <<"3", "7", "8", "5", "9", "5", "a">>}

\* The records handed to score_record: every record of at most two fields
\* of ScoreFields, and one of five.  The fields: each scored tag, some twice,
\* with blank and other indicators; 008 data of 11 and of 40 characters;
\* subfields 9 that match each authority pattern or none, on heading fields
\* (100, 105, 650, 700), on a 245 field and on a field with a tag that is no
\* number.
ScoreFields ==
    {Plain(t245, "a", <<"x">>),
     Field(t245, "1", "0", <<Subf("a", <<"y">>), Subf("9", <<"v", "i", "a", "f", ":", "1">>)>>),
     Plain(t260, "c", <<"1", "9", "9", "9">>),
     Field(t264, " ", "1", <<Subf("c", <<"1", "9", "9", "9">>)>>),
     Field(t100, "1", " ", <<Subf("a", <<"b">>), Subf("9", <<" ", "V", "I", "A", "F", ":", " ", "1", "2", "3", " ">>), Subf("9", <<"f", "o", "o">>)>>),
     Field(t110, "2", " ", <<Subf("9", <<"i", "s", "n", "i", ":", "0", "0", "0", "0", "0", "0", "0", "1", "2", "3", "4", "5", "6", "7", "8", "X">>)>>),
     Plain(t111, "a", <<"m">>),
     Field(<<"1", "0", "5">>, " ", " ", <<Subf("9", <<"1", "2", "3", "4", "5", "6", "7">>)>>),
     Plain(t020, "a", Isbn13),
     Plain(t022, "a", Issn),
     Plain(t300, "a", <<"1", "v">>),
     ControlField(t008, <<"8", "5", "0", "1", "0", "1", "s", "1", "9", "8", "5">>),
     ControlField(t008, <<"8", "5", "0", "1", "0", "1", "s", "1", "9", "8", "5", " ", " ", " ", " ", "s", "p", " ", " ", " ", " ", " ", " ", " ", " ", " ", " ", " ", " ", "0", "0", "0", " ", "0", " ", "s", "p", "a", " ", "d">>),
     Field(<<"6", "5", "0">>, " ", "7", <<Subf("9", <<"w", "d", ":", "Q", "4", "2">>), Subf("a", <<"s">>), Subf("9", <<"B", "N", "E", ":", "X", "X", "1">>)>>),
     Field(<<"7", "0", "0">>, "1", " ", <<Subf("9", <<"l", "e", "m", "a", "c", ":", "a">>), Subf("9", <<"c", "a", "n", "t", "i", "c", ":", "b">>), Subf("9", <<"1", "2", "3", "4", "5", "6", "7", "8">>)>>),
     Field(<<"L", "D", "R">>, " ", " ", <<Subf("9", <<"v", "i", "a", "f", ":", "1">>)>>)}
ScoreRecords ==
    UNION {[1..n -> ScoreFields] : n \in 0..2}
        \cup {<<Plain(t245, "a", <<"x">>), Plain(t260, "c", <<"1", "9", "9", "9">>), Plain(t100, "a", <<"b">>),
                Plain(t020, "a", Isbn13), ControlField(t008, <<"8", "5", "0", "1", "0", "1", "s", "1", "9", "8", "5", " ", " ", " ", " ", "s", "p", " ", " ", " ", " ", " ", " ", " ", " ", " ", " ", " ", " ", "0", "0", "0", " ", "0", " ", "s", "p", "a", " ", "d">>)>>}

\* The arguments of the model for each function.
CallInputs ==
    [is_valid_isbn10 |-> Isbn10Vectors \cup UNION {OneChanged(v, CheckChars) : v \in Isbn10Vectors},
     is_valid_isbn13 |-> Isbn13Vectors \cup UNION {OneChanged(v, DigitSet) : v \in Isbn13Vectors},
     is_valid_issn |-> IssnVectors \cup UNION {OneChanged(v, CheckChars) : v \in IssnVectors}
                          \cup ShortIssnVectors \cup OddIssnStrings,
     norm_isbn |-> Candidates,
     norm_issn |-> Candidates,
     extract_strong_key |-> KeyRecords,
     normalize_text |-> Texts,
     extract_year |-> YearRecords,
     score_record |-> ScoreRecords]
\* The functions that read the global VALIDATE.
ReadsValidate == {"norm_isbn", "norm_issn", "extract_strong_key"}

\* A function is about to be called with an argument; VALIDATE has its value
\* of line 46 unless the function reads it, and then either value.
InitCall ==
    /\ fn \in DOMAIN CallInputs
    /\ arg \in CallInputs[fn]
    /\ res = None
    /\ pc = "call"
    /\ VALIDATE \in (IF fn \in ReadsValidate THEN BOOLEAN ELSE {FALSE})
    /\ weak = 0 /\ use_fuzzy = FALSE /\ strong_only = FALSE
    /\ sources = <<>>
    /\ src = 0
    /\ clusters = <<>>
    /\ strong_index = <<>>
    /\ fuzzy_index = <<>>
    /\ next_id = 1
    /\ total = 0
    /\ stream = <<>>
    /\ sr = SourceRecord(<<>>, <<>>, <<>>, None, None)
    /\ cl = NoCluster
    /\ best_sc = 0
    /\ best_cluster = NoCluster
    /\ NoMerge
    /\ NoMain
    /\ NoPhase

\* The calls: the function named by fn is applied to arg and returns.
CallIsValidIsbn10 ==
    /\ pc = "call"
    /\ fn = "is_valid_isbn10"
    /\ res' = is_valid_isbn10(arg)
    /\ pc' = "returned"
    /\ UNCHANGED <<cvars, mvars, avars, qvars, fn, arg>>

CallIsValidIsbn13 ==
    /\ pc = "call"
    /\ fn = "is_valid_isbn13"
    /\ res' = is_valid_isbn13(arg)
    /\ pc' = "returned"
    /\ UNCHANGED <<cvars, mvars, avars, qvars, fn, arg>>

CallIsValidIssn ==
    /\ pc = "call"
    /\ fn = "is_valid_issn"
    /\ res' = is_valid_issn(arg)
    /\ pc' = "returned"
    /\ UNCHANGED <<cvars, mvars, avars, qvars, fn, arg>>

CallNormIsbn ==
    /\ pc = "call"
    /\ fn = "norm_isbn"
    /\ res' = norm_isbn(arg, VALIDATE)
    /\ pc' = "returned"
    /\ UNCHANGED <<cvars, mvars, avars, qvars, fn, arg>>

CallNormIssn ==
    /\ pc = "call"
    /\ fn = "norm_issn"
    /\ res' = norm_issn(arg, VALIDATE)
    /\ pc' = "returned"
    /\ UNCHANGED <<cvars, mvars, avars, qvars, fn, arg>>

CallExtractStrongKey ==
    /\ pc = "call"
    /\ fn = "extract_strong_key"
    /\ res' = extract_strong_key(arg, VALIDATE)
    /\ pc' = "returned"
    /\ UNCHANGED <<cvars, mvars, avars, qvars, fn, arg>>

CallNormalizeText ==
    /\ pc = "call"
    /\ fn = "normalize_text"
    /\ res' = normalize_text(arg)
    /\ pc' = "returned"
    /\ UNCHANGED <<cvars, mvars, avars, qvars, fn, arg>>

CallExtractYear ==
    /\ pc = "call"
    /\ fn = "extract_year"
    /\ res' = extract_year(arg)
    /\ pc' = "returned"
    /\ UNCHANGED <<cvars, mvars, avars, qvars, fn, arg>>

CallScoreRecord ==
    /\ pc = "call"
    /\ fn = "score_record"
    /\ res' = score_record(arg)
    /\ pc' = "returned"
    /\ UNCHANGED <<cvars, mvars, avars, qvars, fn, arg>>

NextCall ==
    \/ CallIsValidIsbn10
    \/ CallIsValidIsbn13
    \/ CallIsValidIssn
    \/ CallNormIsbn
    \/ CallNormIssn
    \/ CallExtractStrongKey
    \/ CallNormalizeText
    \/ CallExtractYear
    \/ CallScoreRecord

SpecCall == InitCall /\ [][NextCall]_vars

(***************************************************************************)
(* PerfMonitor.phase (colectivo_v6_monitor.py): a context manager, entered  *)
(* by "with monitor.phase(name):", one inside another or one after         *)
(* another.                                                                *)
(***************************************************************************)
\* At most MaxPhases phases are entered, at most MaxDepth inside each other.
MaxPhases == 3
MaxDepth == 2
PhaseNames == {"lectura_indexacion", "clustering_fuzzy"}

\* The records of log_perf: the event, id=%d and name=%s.
PhaseEvent(event, phase_id, name) == [event |-> event, id |-> phase_id, name |-> name]

\* A monitor has been constructed: phase_counter = 0; nothing else runs.
InitPhase ==
    /\ pc = "phases"
    /\ NoPhase
    /\ VALIDATE = FALSE
    /\ weak = 0 /\ use_fuzzy = FALSE /\ strong_only = FALSE
    /\ sources = <<>>
    /\ src = 0
    /\ clusters = <<>>
    /\ strong_index = <<>>
    /\ fuzzy_index = <<>>
    /\ next_id = 1
    /\ total = 0
    /\ stream = <<>>
    /\ sr = SourceRecord(<<>>, <<>>, <<>>, None, None)
    /\ cl = NoCluster
    /\ best_sc = 0
    /\ best_cluster = NoCluster
    /\ NoMerge
    /\ NoMain
    /\ NoCall

\* __enter__: the generator runs up to its yield: the counter is
\* incremented, phase_id is bound, PHASE_START is logged.
EnterPhase ==
    /\ pc = "phases"
    /\ ~raising
    /\ phase_counter < MaxPhases
    /\ Len(phases) < MaxDepth
    /\ \E name \in PhaseNames :
          /\ phase_counter' = phase_counter + 1
          /\ log_perf' = Append(log_perf, PhaseEvent("PHASE_START", phase_counter + 1, name))
          /\ phases' = Append(phases, [phase_id |-> phase_counter + 1, name |-> name])
    /\ UNCHANGED <<cvars, mvars, avars, pvars, raising, pc>>

\* __exit__ without exception: the body of the innermost phase has ended,
\* the generator resumes after the yield and the finally block runs.
BodyEnds ==
    /\ pc = "phases"
    /\ ~raising
    /\ phases # <<>>
    /\ log_perf' = Append(log_perf, PhaseEvent("PHASE_END", phases[Len(phases)].phase_id,
                                               phases[Len(phases)].name))
    /\ phases' = SubSeq(phases, 1, Len(phases) - 1)
    /\ UNCHANGED <<cvars, mvars, avars, pvars, phase_counter, raising, pc>>

\* A wrong exit, which C39 rules out: there is no finally, and an exception
\* of the body leaves the phase with nothing logged.
BodyRaises_NoFinally ==
    /\ pc = "phases"
    /\ ~raising
    /\ phases # <<>>
    /\ phases' = SubSeq(phases, 1, Len(phases) - 1)
    /\ raising' = TRUE
    /\ UNCHANGED <<cvars, mvars, avars, pvars, phase_counter, log_perf, pc>>

\* __exit__ with an exception: the body of the innermost phase has raised,
\* the exception is thrown into the generator at the yield, the finally
\* block runs and the exception goes on.
BodyRaises ==
    /\ pc = "phases"
    /\ ~raising
    /\ phases # <<>>
    /\ log_perf' = Append(log_perf, PhaseEvent("PHASE_END", phases[Len(phases)].phase_id,
                                               phases[Len(phases)].name))
    /\ phases' = SubSeq(phases, 1, Len(phases) - 1)
    /\ raising' = TRUE
    /\ UNCHANGED <<cvars, mvars, avars, pvars, phase_counter, pc>>

\* The exception reaches the with statement of the enclosing phase, whose
\* body it ends: the same exit.
Unwind ==
    /\ pc = "phases"
    /\ raising
    /\ phases # <<>>
    /\ log_perf' = Append(log_perf, PhaseEvent("PHASE_END", phases[Len(phases)].phase_id,
                                               phases[Len(phases)].name))
    /\ phases' = SubSeq(phases, 1, Len(phases) - 1)
    /\ UNCHANGED <<cvars, mvars, avars, pvars, phase_counter, raising, pc>>

\* The body of the enclosing phase catches the exception and goes on.
BodyCatches ==
    /\ pc = "phases"
    /\ raising
    /\ phases # <<>>
    /\ raising' = FALSE
    /\ UNCHANGED <<cvars, mvars, avars, pvars, phase_counter, log_perf, phases, pc>>

\* The exception leaves the outermost phase: the caller of the with
\* statement has it.
Propagates ==
    /\ pc = "phases"
    /\ raising
    /\ phases = <<>>
    /\ pc' = "raised"
    /\ UNCHANGED <<cvars, mvars, avars, pvars, qvars>>

NextPhase ==
    \/ EnterPhase
    \/ BodyEnds
    \/ BodyRaises
    \/ Unwind
    \/ BodyCatches
    \/ Propagates

SpecPhase == InitPhase /\ [][NextPhase]_vars

(***************************************************************************)
(* Properties of the clustering run (specification Spec).                  *)
(***************************************************************************)
\* The strong keys of the members of the k-th cluster.
StrongKeysOf(k) == {clusters[k].members[a].strong_key : a \in DOMAIN clusters[k].members}

\* C1: with fuzzy matching disabled, any two records read so far that have
\* the same strong key are members of the same cluster; the streams of the
\* model hold the records in every order and every split over the sources.
C1_SameStrongKeySameCluster ==
    ~use_fuzzy =>
        \A i, j \in DOMAIN clusters :
            (\E k \in StrongKeysOf(i) \cap StrongKeysOf(j) : Truthy(k)) => i = j

\* C1 happens: two different records with one ISBN, written differently, from
\* different sources and with another record read between them, share a
\* cluster.
C1_Witness ==
    /\ ~use_fuzzy
    /\ total = 3
    /\ stream[1].record = RecIsbnB /\ stream[1].lib = LIB1
    /\ stream[2].record = RecAB
    /\ stream[3].record = RecIsbnA /\ stream[3].lib = LIB2
    /\ Len(clusters) = 2
    /\ clusters[1].members = <<stream[1], stream[3]>>

\* C2: index-growth chaining.  When exactly three records A, B, C without
\* strong keys have been read in that order with the fuzzy pass on, B's key
\* scoring >= weak against A's key and C's key scoring < weak against A's key
\* but >= weak against B's key, all three are in one cluster.
C2_Chaining ==
    (/\ use_fuzzy /\ ~strong_only
     /\ total = 3
     /\ \A i \in 1..3 : ~Truthy(stream[i].strong_key)
     /\ AtLeast(token_sort_ratio(stream[2].fuzzy_key, stream[1].fuzzy_key), weak)
     /\ ~AtLeast(token_sort_ratio(stream[3].fuzzy_key, stream[1].fuzzy_key), weak)
     /\ AtLeast(token_sort_ratio(stream[3].fuzzy_key, stream[2].fuzzy_key), weak))
    => \E k \in DOMAIN clusters : clusters[k].members = stream

\* C2 happens: "b a", then "a b c" (75 against "b a"), then "b c" (33.3
\* against "b a", 75 against "a b c") at threshold 75, in one cluster.
C2_Witness ==
    /\ use_fuzzy /\ ~strong_only /\ weak = 75
    /\ total = 3
    /\ stream[1].record = RecAB /\ stream[2].record = RecABC /\ stream[3].record = RecBC
    /\ ~AtLeast(token_sort_ratio(stream[3].fuzzy_key, stream[1].fuzzy_key), weak)
    /\ Len(clusters) = 1
    /\ clusters[1].members = stream

\* The best similarity of a key against the keys of the fuzzy index, and the
\* cluster of the first key of the index that reaches it.
BestSimilarity(findex, fk) ==
    LET scores == {token_sort_ratio(fk, findex[i].key) : i \in DOMAIN findex}
    IN  CHOOSE m \in scores : \A x \in scores : x <= m
BestScoringCluster(findex, fk) ==
    LET best == BestSimilarity(findex, fk)
        first == CHOOSE i \in DOMAIN findex :
                    /\ token_sort_ratio(fk, findex[i].key) = best
                    /\ \A j \in 1..(i - 1) : token_sort_ratio(fk, findex[j].key) # best
    IN  findex[first].val

\* A step that reads a record which has a fuzzy key and no strong-index hit,
\* with the fuzzy pass on and a fuzzy index that is not empty.
FuzzyStep ==
    /\ total' = total + 1
    /\ use_fuzzy /\ ~strong_only
    /\ Truthy(sr'.fuzzy_key)
    /\ ~(Truthy(sr'.strong_key) /\ DictHas(strong_index, sr'.strong_key))
    /\ fuzzy_index # <<>>

\* C3: fuzzy threshold boundary.  A record of a fuzzy step whose best
\* similarity equals the threshold goes to the best-scoring key's existing
\* cluster; one whose best similarity is one point below creates a cluster.
C3_ThresholdBoundary ==
    [][FuzzyStep =>
         LET best == BestSimilarity(fuzzy_index, sr'.fuzzy_key)
         IN  /\ best = 100 * weak =>
                  /\ cl' = BestScoringCluster(fuzzy_index, sr'.fuzzy_key)
                  /\ Len(clusters') = Len(clusters)
             /\ best = 100 * (weak - 1) =>
                  /\ cl' = Len(clusters) + 1
                  /\ Len(clusters') = Len(clusters) + 1]_vars

\* C4: cluster monotonicity.  A step that reads a record appends exactly that
\* one SourceRecord to the end of exactly one member list (of an existing
\* cluster or of one new cluster at the end of the list) and leaves every
\* other member list as it was; any other step leaves the clusters alone; no
\* cluster is empty.
C4_ClusterMonotonic ==
    [][/\ IF total' = total + 1
          THEN \E k \in DOMAIN clusters' :
                 /\ Len(clusters') = IF k \in DOMAIN clusters THEN Len(clusters)
                                     ELSE Len(clusters) + 1
                 /\ clusters'[k].members =
                      Append(IF k \in DOMAIN clusters THEN clusters[k].members ELSE <<>>, sr')
                 /\ \A j \in DOMAIN clusters' \ {k} :
                      j \in DOMAIN clusters /\ clusters'[j].members = clusters[j].members
          ELSE clusters' = clusters
       /\ \A k \in DOMAIN clusters' : clusters'[k].members # <<>>]_vars

\* C4 happens: a record has joined an existing cluster while another cluster
\* exists.
C4_Witness ==
    /\ Len(clusters) = 2
    /\ Len(clusters[1].members) = 2
    /\ Len(clusters[2].members) = 1
    /\ cl = 1

\* A record without a usable identifier and without author, title or year:
\* no strong key, and the fuzzy key build_fuzzy_key gives is empty.
Keyless(r) == StrongKeyOf[VALIDATE][r] = None /\ FuzzyKeyOf[r] = <<>>

\* C11: a record with no strong key and an empty fuzzy key creates a new
\* cluster and changes neither index when it is read, and at every later
\* moment (so when the stream is exhausted) a cluster that holds such a record
\* holds nothing else, whatever was read before or after and whatever the
\* threshold and the flags are.
C11_KeylessIsSingleton ==
    [][/\ (total' = total + 1 /\ Keyless(sr'.record)) =>
             /\ Len(clusters') = Len(clusters) + 1
             /\ cl' = Len(clusters')
             /\ clusters'[cl'].members = <<sr'>>
             /\ strong_index' = strong_index
             /\ fuzzy_index' = fuzzy_index
       /\ \A k \in DOMAIN clusters' :
             (\E a \in DOMAIN clusters'[k].members : Keyless(clusters'[k].members[a].record))
                 => Len(clusters'[k].members) = 1]_vars

\* C11 happens: the keyless record was read second of three, with the fuzzy
\* pass on and the threshold at 0; build_clusters has returned and the record
\* is alone in the second cluster.
C11_Witness ==
    /\ pc = "clustered"
    /\ use_fuzzy /\ ~strong_only /\ weak = 0 /\ VALIDATE
    /\ total = 3
    /\ stream[1].record = RecAB /\ stream[2].record = RecIssn /\ stream[3].record = RecBC
    /\ Len(clusters) = 2
    /\ clusters[2].members = <<stream[2]>>

\* The kind of identifier a record's strong key comes from: an ISBN when a
\* 020 $a/$z value is accepted, else an ISSN when a 022 $a/$y/$z value is.
HasIsbn(r) ==
    \E v \in Range(CandidateValues(r, t020, {"a", "z"})) : Truthy(norm_isbn(v, VALIDATE))
HasIssn(r) ==
    /\ ~HasIsbn(r)
    /\ \E v \in Range(CandidateValues(r, t022, {"a", "y", "z"})) : Truthy(norm_issn(v, VALIDATE))

\* C12: an ISBN key starts with "ISBN:" and an ISSN key with "ISSN:", so that
\* the strong key of an ISBN record never equals the strong key of an ISSN
\* record (the strong index matches equal keys only), even when the digits
\* are the same; with fuzzy matching disabled no cluster holds both an ISBN
\* record and an ISSN record.
C12_IsbnIssnApart ==
    /\ \A i \in DOMAIN stream :
          /\ HasIsbn(stream[i].record) =>
                StartsWith(stream[i].strong_key, <<"I", "S", "B", "N", ":">>)
          /\ HasIssn(stream[i].record) =>
                StartsWith(stream[i].strong_key, <<"I", "S", "S", "N", ":">>)
    /\ \A i, j \in DOMAIN stream :
          (HasIsbn(stream[i].record) /\ HasIssn(stream[j].record))
              => stream[i].strong_key # stream[j].strong_key
    /\ ~use_fuzzy =>
          \A k \in DOMAIN clusters : \A a, b \in DOMAIN clusters[k].members :
              ~(HasIsbn(clusters[k].members[a].record) /\ HasIssn(clusters[k].members[b].record))

\* C12 happens: without checksum enforcement and without fuzzy matching, an
\* ISBN record and an ISSN record with the same 13 digits were read, and are
\* in different clusters.
C12_Witness ==
    /\ ~use_fuzzy /\ ~VALIDATE
    /\ total = 2
    /\ stream[1].record = RecIssn /\ stream[2].record = RecIsbnA
    /\ Drop(stream[1].strong_key, 5) = Drop(stream[2].strong_key, 5)
    /\ Len(clusters) = 2
    /\ clusters[1].members = <<stream[1]>> /\ clusters[2].members = <<stream[2]>>

\* The <<lib, record>> pairs read so far, as an input for build_clusters.
Input == [i \in DOMAIN stream |-> <<stream[i].lib, stream[i].record>>]
\* Two runs give the same clusters: same ids in the same order, same
\* strong-key sets, same members (source, local id, record, strong key) in
\* the same order.  The fuzzy keys, of clusters and of members, are left out.
SameClustering(a, b) ==
    /\ Len(a.clusters) = Len(b.clusters)
    /\ \A k \in DOMAIN a.clusters :
          /\ a.clusters[k].id = b.clusters[k].id
          /\ a.clusters[k].strong_keys = b.clusters[k].strong_keys
          /\ Len(a.clusters[k].members) = Len(b.clusters[k].members)
          /\ \A i \in DOMAIN a.clusters[k].members :
                LET x == a.clusters[k].members[i]
                    y == b.clusters[k].members[i]
                IN  /\ x.lib = y.lib /\ x.local_id = y.local_id
                    /\ x.record = y.record /\ x.strong_key = y.strong_key

\* C13: for the records read so far and the threshold of the run,
\* build_clusters with use_fuzzy and strong_only gives the same clusters as
\* build_clusters without use_fuzzy (with or without strong_only).
C13_StrongOnlyIsNoFuzzy ==
    \A so \in BOOLEAN :
        SameClustering(RunOver(EmptyRun, Input, VALIDATE, weak, TRUE, TRUE),
                       RunOver(EmptyRun, Input, VALIDATE, weak, FALSE, so))

\* C13 happens: two records that the fuzzy pass puts in one cluster at
\* threshold 75 are in two clusters in strong-only mode.
C13_Witness ==
    /\ use_fuzzy /\ ~strong_only /\ weak = 75
    /\ total = 2
    /\ stream[1].record = RecAB /\ stream[2].record = RecABC
    /\ Len(clusters) = 1
    /\ Len(RunOver(EmptyRun, Input, VALIDATE, weak, TRUE, TRUE).clusters) = 2

\* C14: the clusters have the ids 1, 2, ..., k in list order (the first has
\* id 1) and next_id is k + 1.
C14_SequentialIds ==
    /\ \A i \in DOMAIN clusters : clusters[i].id = i
    /\ next_id = Len(clusters) + 1

\* C14 happens: three clusters were created.
C14_Witness ==
    /\ Len(clusters) = 3
    /\ clusters[1].id = 1 /\ clusters[2].id = 2 /\ clusters[3].id = 3
    /\ next_id = 4

(***************************************************************************)
(* Properties of the merge (specification SpecMerge).  members0 holds the  *)
(* members as they were passed, rec the returned record.                   *)
(***************************************************************************)
\* The tags the preferred-fields loop works on, and the members that had a
\* field of a tag when merge_cluster was called.
PreferredTags == {strip(prefer_fields[i]) : i \in DOMAIN prefer_fields} \ {<<>>}
MembersWith(tag) == {i \in DOMAIN members0 : get_fields(members0[i].record, {tag}) # <<>>}
FirstWith(tag) == CHOOSE i \in MembersWith(tag) : \A j \in MembersWith(tag) : i <= j
Least(S) == CHOOSE i \in S : \A j \in S : i <= j

\* C6: donor copy.  For every preferred tag that a member carries, the
\* merged record's fields of the tag are exactly the fields of the tag of the
\* first member that has it (same indicators, subfields, order and number).
C6_DonorCopy ==
    pc = "merged" =>
        \A tag \in PreferredTags :
            MembersWith(tag) # {} =>
                get_fields(rec, {tag}) = get_fields(members0[FirstWith(tag)].record, {tag})

\* C7 as claimed: for a preferred tag present on two or more members, every
\* field of the tag in the merged record is a field of one single member.
C7_SingleDonor ==
    pc = "merged" =>
        \A tag \in PreferredTags :
            Cardinality(MembersWith(tag)) >= 2 =>
                \E d \in DOMAIN members0 :
                    Range(get_fields(rec, {tag}))
                        \subseteq Range(get_fields(members0[d].record, {tag}))

\* C7 as amended: the same of every field of the tag other than the merge
\* note, which is the last field of the merged record and has the tag when
\* the merge-note tag is the preferred tag.
C7_SingleDonorButNote ==
    pc = "merged" =>
        \A tag \in PreferredTags :
            Cardinality(MembersWith(tag)) >= 2 =>
                \E d \in DOMAIN members0 :
                    Range(get_fields(SubSeq(rec, 1, Len(rec) - 1), {tag}))
                        \subseteq Range(get_fields(members0[d].record, {tag}))

\* C7 happens: the primary has two title fields of its own, the first
\* member one other title field; the merged record has the first member's
\* title and none of the primary's.
C7_Witness ==
    /\ pc = "merged"
    /\ Len(members0) = 2
    /\ members0[1].record = MrgFull /\ members0[2].record = MrgTwoTitles
    /\ primary = 2
    /\ t245 \in PreferredTags
    /\ get_fields(SubSeq(rec, 1, Len(rec) - 1), {t245}) = get_fields(MrgFull, {t245})

\* C8: primary selection.  The primary is a maximal scorer; when an entry of
\* the preferred-source list matches a maximal scorer, it is the first
\* maximal scorer whose source is the earliest such entry; otherwise it is
\* the first maximal scorer.
C8_PrimarySelection ==
    pc = "merged" =>
        LET score(i) == score_record(members0[i].record)
            best == {i \in DOMAIN members0 : \A j \in DOMAIN members0 : score(j) <= score(i)}
            matching == {e \in DOMAIN prefer : \E i \in best : members0[i].lib = prefer[e]}
        IN  /\ primary \in best
            /\ IF matching # {}
               THEN primary = Least({i \in best : members0[i].lib = prefer[Least(matching)]})
               ELSE primary = Least(best)

\* C8 happens: two maximal scorers, the second from the source the list
\* names before the first one's source, after an entry that matches nobody.
C8_Witness ==
    /\ pc = "merged"
    /\ Len(members0) = 2
    /\ members0[1].record = members0[2].record
    /\ members0[1].lib = LIB1 /\ members0[2].lib = LIB2
    /\ prefer = <<LIB3, LIB2, LIB1>>
    /\ primary = 2

\* s is a subsequence of t: its elements occur in t in the same order.
RECURSIVE IsSubseq(_, _)
IsSubseq(s, t) ==
    IF s = <<>> THEN TRUE
    ELSE IF t = <<>> THEN FALSE
    ELSE IF Head(s) = Head(t) THEN IsSubseq(Tail(s), Tail(t))
    ELSE IsSubseq(s, Tail(t))

\* C9: provenance and holdings.  The merged record holds, in member order,
\* one provenance field "(lib)local_id" per member and one holdings field
\* per member (subfield a = lib, and b = local_id when it is not empty).
C9_ProvenanceAndHoldings ==
    pc = "merged" =>
        /\ IsSubseq([i \in DOMAIN members0 |->
                       [tag |-> prov_tag, indicator1 |-> " ", indicator2 |-> " ",
                        subfields |-> <<[code |-> "a",
                                         value |-> <<"(">> \o members0[i].lib \o <<")">>
                                                   \o members0[i].local_id]>>,
                        data |-> <<>>]],
                    rec)
        /\ IsSubseq([i \in DOMAIN members0 |->
                       [tag |-> hold_tag, indicator1 |-> " ", indicator2 |-> " ",
                        subfields |->
                            IF members0[i].local_id = <<>>
                            THEN <<[code |-> "a", value |-> members0[i].lib]>>
                            ELSE <<[code |-> "a", value |-> members0[i].lib],
                                   [code |-> "b", value |-> members0[i].local_id]>>,
                        data |-> <<>>]],
                    rec)

\* C10: the merge mutates the primary's record only: every other member's
\* record is, when merge_cluster returns, what it was when it was called.
C10_OnlyPrimaryMutated ==
    pc = "merged" =>
        \A i \in DOMAIN members0 \ {primary} :
            cluster.members[i].record = members0[i].record

\* C10 happens: the donor of the title fields is not the primary; the
\* primary's record has changed and holds the donor's title.
C10_Witness ==
    /\ pc = "merged"
    /\ Len(members0) = 2
    /\ primary = 2
    /\ t245 \in PreferredTags
    /\ FirstWith(t245) = 1
    /\ cluster.members[2].record # members0[2].record
    /\ cluster.members[2].record = rec
    /\ \E i \in DOMAIN rec : rec[i] = get_fields(members0[1].record, {t245})[1]

(***************************************************************************)
(* Properties of a run of main (specification SpecMain).                   *)
(***************************************************************************)
\* What the readers yield over the whole run: for every source in order, the
\* decoded records of its file in file order, each with the source's label.
Decoded(file) == SelectSeq(file, LAMBDA e : e.ok)
ReaderOutput ==
    Flatten([i \in DOMAIN sources |->
               [j \in DOMAIN Decoded(files[sources[i][2]]) |->
                  <<sources[i][1], Decoded(files[sources[i][2]])[j].record>>]])
Count(seq, v) == Cardinality({i \in DOMAIN seq : seq[i] = v})
LibAndId(members) ==
    [i \in DOMAIN members |-> [lib |-> members[i].lib, local_id |-> members[i].local_id]]

\* C15: when build_clusters returns, the records the readers yielded (sources
\* in the given order, records in file order) are each in exactly one
\* cluster, exactly once: the member counts add up to the number of records
\* read and every SourceRecord is a member as often as it was read; the
\* members of every cluster are in stream order; and the manifest of
\* write_json lists the members of every cluster in that same order.
C15_OwnershipAndOrder ==
    /\ pc = "clustered" =>
          /\ [i \in DOMAIN stream |-> <<stream[i].lib, stream[i].record>>] = ReaderOutput
          /\ total = Len(stream)
          /\ Sum([k \in DOMAIN clusters |-> Len(clusters[k].members)]) = total
          /\ \A v \in Range(stream) :
                Sum([k \in DOMAIN clusters |-> Count(clusters[k].members, v)]) = Count(stream, v)
          /\ \A k \in DOMAIN clusters : IsSubseq(clusters[k].members, stream)
    /\ (pc = "done" /\ Truthy(args.clusters_json)) =>
          /\ Len(manifest) = Len(clusters)
          /\ \A k \in DOMAIN clusters :
                /\ manifest[k].members = LibAndId(clusters[k].members)
                /\ IsSubseq(manifest[k].members, LibAndId(stream))

\* C15 happens: the first cluster has a member of each source, with a record
\* of another cluster read between them, and the manifest is written.
C15_Witness ==
    /\ pc = "done"
    /\ Len(manifest) = 2
    /\ Len(stream) = 3
    /\ stream[1].lib = LIB1 /\ stream[2].lib = LIB1 /\ stream[3].lib = LIB2
    /\ manifest[1].members = LibAndId(<<stream[1], stream[3]>>)
    /\ manifest[2].members = LibAndId(<<stream[2]>>)

\* C16: two sources, LIB1 with one record (ISBN 9780306406157, local id A1)
\* and then LIB2 with one record (the same ISBN, local id B7), give one
\* cluster with id 1, two members and the strong keys {ISBN:9780306406157};
\* the manifest is that cluster with members (LIB1, A1), (LIB2, B7) in that
\* order; with the fuzzy pass on or off.
C16_TwoSourceScenario ==
    (/\ args.src = <<LIB1 \o <<"=">> \o PathA, LIB2 \o <<"=">> \o PathB>>
     /\ files[PathA] = <<Entry(RecIsbnA)>>
     /\ files[PathB] = <<Entry(RecIsbnB)>>)
    => /\ pc \in {"clustered", "union_written", "report_written", "done"} =>
             /\ Len(clusters) = 1
             /\ clusters[1].id = 1
             /\ Len(clusters[1].members) = 2
             /\ clusters[1].strong_keys = {<<"I", "S", "B", "N", ":">> \o Isbn13}
       /\ (pc = "done" /\ Truthy(args.clusters_json)) =>
             manifest = <<[cluster_id |-> 1,
                           strong_keys |-> <<<<"I", "S", "B", "N", ":">> \o Isbn13>>,
                           members |-> <<[lib |-> LIB1, local_id |-> <<"A", "1">>],
                                         [lib |-> LIB2, local_id |-> <<"B", "7">>]>>]>>

\* C16 happens: the scenario has run to its end with the fuzzy pass on and
\* the manifest is written.
C16_Witness ==
    /\ pc = "done"
    /\ args.src = <<LIB1 \o <<"=">> \o PathA, LIB2 \o <<"=">> \o PathB>>
    /\ files[PathA] = <<Entry(RecIsbnA)>>
    /\ files[PathB] = <<Entry(RecIsbnB)>>
    /\ use_fuzzy /\ ~strong_only
    /\ Len(manifest) = 1

\* C17: write_union writes one merged record per cluster, write_report one
\* row per cluster and write_json one object per cluster, all in ascending
\* cluster-id order; for every cluster the size of its row is the number of
\* members of its object, and the strong keys of its row are the sorted
\* strong keys of its object joined by semicolons.
C17_ArtifactsAgree ==
    /\ pc \in {"union_written", "report_written", "done"} =>
          /\ Len(union) = Len(clusters)
          /\ \A k \in DOMAIN clusters :
                \E i \in DOMAIN clusters[k].members : union[k] = clusters[k].members[i].record
    /\ pc \in {"report_written", "done"} =>
          /\ Len(report.rows) = Len(clusters)
          /\ \A k \in DOMAIN clusters : report.rows[k][1] = clusters[k].id
          /\ \A k \in 1..(Len(clusters) - 1) : report.rows[k][1] < report.rows[k + 1][1]
    /\ (pc = "done" /\ Truthy(args.clusters_json)) =>
          /\ Len(manifest) = Len(clusters)
          /\ \A k \in DOMAIN clusters :
                /\ manifest[k].cluster_id = report.rows[k][1]
                /\ report.rows[k][2] = Len(manifest[k].members)
                /\ report.rows[k][3] = Join(<<";">>, manifest[k].strong_keys)
                /\ Range(manifest[k].strong_keys) = clusters[k].strong_keys
                /\ \A i \in 1..(Len(manifest[k].strong_keys) - 1) :
                      StrLess(manifest[k].strong_keys[i], manifest[k].strong_keys[i + 1])

\* C17 happens: three artifacts for two clusters, one of them with two
\* members of one source.
C17_Witness ==
    /\ pc = "done"
    /\ written = <<"out", "report", "json">>
    /\ Len(union) = 2 /\ Len(report.rows) = 2 /\ Len(manifest) = 2
    /\ report.rows[1][2] = 2
    /\ manifest[1].members[1].lib = manifest[1].members[2].lib

\* C18: a --src value without "=" is a configuration error: once main has
\* looked at the command line the run is aborted with an error, and nothing
\* is read, clustered or written.
C18_MalformedSourceAborts ==
    (\E i \in DOMAIN args.src : ~Contains(args.src[i], "=")) =>
        (pc # "main" =>
            /\ pc = "failed"
            /\ error # None
            /\ total = 0
            /\ clusters = <<>>
            /\ written = <<>>)

\* A path whose name ends, in any letter case, with a recognised extension.
Recognized(path) ==
    \E e \in Extensions :
        /\ Len(path) > Len(e)
        /\ MapSeq(lower, SubSeq(path, Len(path) - Len(e) + 1, Len(path))) = e

\* C19: when the source loop reaches a source whose extension is not
\* recognised, the next step raises the error that names the conversion step,
\* with no record of the source read or clustered, and the run is over: no
\* step follows, and a run with such a source never returns from
\* build_clusters; a source whose extension is recognised is read.
C19_UnsupportedExtensionFails ==
    [][/\ (pc = "source" /\ src <= Len(sources) /\ ~Recognized(sources[src][2])) =>
             /\ pc' = "failed"
             /\ error' = <<"ValueError", "convertir_xml_a_mrc.py">>
             /\ clusters' = clusters /\ total' = total /\ stream' = stream
       /\ (pc = "source" /\ src <= Len(sources) /\ Recognized(sources[src][2])) =>
             pc' = "records" /\ error' = None
       /\ pc # "failed"
       /\ (\E i \in DOMAIN sources' : ~Recognized(sources'[i][2])) =>
             pc' \notin {"clustered", "union_written", "report_written", "done"}]_vars

\* C19 happens: the second source has an extension that is not recognised;
\* the run has failed there after the first source was read, with nothing
\* written.
C19_Witness ==
    /\ pc = "failed"
    /\ error = <<"ValueError", "convertir_xml_a_mrc.py">>
    /\ src = 2
    /\ sources[2][2] = PathXml
    /\ total = 2
    /\ written = <<>>

\* C20: a record that cannot be decoded does not end the run: the step that
\* meets it leaves the clusters and the stream of processed records alone,
\* the reader moves on to the next record, and the record is counted: a
\* counter of the run (count or total, the counters it keeps) moves.
C20_SkippedAndCounted ==
    [][(/\ pc = "records"
        /\ pos <= Len(files[sources[src][2]])
        /\ ~files[sources[src][2]][pos].ok)
       => /\ pc' = "records"
          /\ pos' = pos + 1
          /\ clusters' = clusters
          /\ stream' = stream
          /\ <<count, total>>' # <<count, total>>]_vars

\* A strong key whose identifier passes the checksum of its kind.
PassedChecksum(k) ==
    \/ /\ SubSeq(k, 1, 5) = <<"I", "S", "B", "N", ":">>
       /\ is_valid_isbn10(SubSeq(k, 6, Len(k))) \/ is_valid_isbn13(SubSeq(k, 6, Len(k)))
    \/ /\ SubSeq(k, 1, 5) = <<"I", "S", "S", "N", ":">>
       /\ is_valid_issn(SubSeq(k, 6, Len(k)))

\* C22: the parser's default leaves checksum enforcement on; in a run whose
\* command line does not disable it, VALIDATE is true from the moment main
\* has read the command line, and every key of the Strong Index belongs to
\* an identifier that passes its checksum; in every run VALIDATE has the
\* value the command line gives it once a record has been processed.
C22_ChecksumOnByDefault ==
    /\ ~build_parser.no_checksum
    /\ (pc # "main" /\ ~args.no_checksum) =>
          /\ VALIDATE
          /\ \A k \in DictKeys(strong_index) : PassedChecksum(k)
    /\ total > 0 => VALIDATE = ~args.no_checksum

\* C22 happens: a run with enforcement left on has read a record whose only
\* identifier fails its checksum, which got no strong key, and a record whose
\* ISBN is in the Strong Index.
C22_Witness ==
    /\ pc = "done"
    /\ ~args.no_checksum
    /\ \E i \in DOMAIN stream : stream[i].record = RecIssn /\ stream[i].strong_key = None
    /\ strong_index # <<>>

(***************************************************************************)
(* Properties of the identifier and text functions (specification          *)
(* SpecCall).                                                              *)
(***************************************************************************)
\* The number of digits and letters X, of either case, in a subfield value.
DigitsAndX(s) == Len(SelectSeq(s, LAMBDA ch : ch \in DigitSet \cup {"X", "x"}))

\* C21: without checksum enforcement norm_isbn accepts a candidate exactly
\* when it has 10 or 13 digits and X, and norm_issn exactly when it has 8, or
\* 7 that are padded to 8: the ISSN returned has 8 characters, and a
\* candidate of any other length gives no key.
C21_LengthGate ==
    (pc = "returned" /\ ~VALIDATE) =>
        /\ fn = "norm_isbn" =>
              /\ Truthy(res) <=> DigitsAndX(arg) \in {10, 13}
              /\ Truthy(res) => Len(res) = DigitsAndX(arg)
        /\ fn = "norm_issn" =>
              /\ Truthy(res) <=> DigitsAndX(arg) \in {7, 8}
              /\ Truthy(res) => Len(res) = 8

\* The candidates of a record that norm accepts, in field and subfield order.
AcceptedBy(norm(_), r, tag, codes) ==
    SelectSeq(CandidateValues(r, tag, codes), LAMBDA v : Truthy(norm(v)))

\* C23: extract_strong_key returns "ISBN:" and the first accepted ISBN
\* candidate of the 020 fields, in field and subfield order, whenever one is
\* accepted, whatever the 022 fields hold; otherwise "ISSN:" and the first
\* accepted ISSN candidate of the 022 fields; otherwise None.  Rejected
\* candidates before it do not count.
C23_IsbnFirstThenIssn ==
    (pc = "returned" /\ fn = "extract_strong_key") =>
        LET isbns == AcceptedBy(LAMBDA v : norm_isbn(v, VALIDATE), arg, t020, {"a", "z"})
            issns == AcceptedBy(LAMBDA v : norm_issn(v, VALIDATE), arg, t022, {"a", "y", "z"})
        IN  /\ isbns # <<>> =>
                  res = <<"I", "S", "B", "N", ":">> \o norm_isbn(isbns[1], VALIDATE)
            /\ (isbns = <<>> /\ issns # <<>>) =>
                  res = <<"I", "S", "S", "N", ":">> \o norm_issn(issns[1], VALIDATE)
            /\ (isbns = <<>> /\ issns = <<>>) => res = None

\* C23 happens: under checksum enforcement, a record whose first ISBN
\* candidate fails its checksum, whose second passes, and which has a valid
\* ISSN too, gets the key of the second ISBN candidate.
C23_Witness ==
    /\ pc = "returned"
    /\ fn = "extract_strong_key"
    /\ VALIDATE
    /\ arg = <<Field(t020, " ", " ", <<Subf("a", Wrong13), Subf("z", Isbn10)>>),
               Plain(t022, "a", Issn)>>
    /\ res = <<"I", "S", "B", "N", ":">> \o Isbn10

\* v and w have the same length and differ in exactly one position.
OneApart(v, w) ==
    /\ Len(v) = Len(w)
    /\ Cardinality({i \in DOMAIN v : v[i] # w[i]}) = 1

\* C24: each validator returns true for every number that satisfies its
\* check equation, and false for every string that differs from such a
\* number in exactly one digit.
C24_ChecksumCorrect ==
    pc = "returned" =>
        /\ fn = "is_valid_isbn10" =>
              /\ (Len(arg) = 10 /\ Isbn10Equation(arg)) => res = TRUE
              /\ (\E v \in Isbn10Vectors : OneApart(v, arg)) => res = FALSE
        /\ fn = "is_valid_isbn13" =>
              /\ (Len(arg) = 13 /\ Isbn13Equation(arg)) => res = TRUE
              /\ (\E v \in Isbn13Vectors : OneApart(v, arg)) => res = FALSE
        /\ fn = "is_valid_issn" =>
              /\ (Len(arg) = 8 /\ IssnEquation(arg)) => res = TRUE
              /\ (\E v \in IssnVectors : OneApart(v, arg)) => res = FALSE

\* C24 happens: the validator has refused 0-8044-2957-X with its check
\* character changed to 7.
C24_Witness ==
    /\ pc = "returned"
    /\ fn = "is_valid_isbn10"
    /\ arg = <<"0", "8", "0", "4", "4", "2", "9", "5", "7", "7">>
    /\ <<"0", "8", "0", "4", "4", "2", "9", "5", "7", "X">> \in Isbn10Vectors
    /\ res = FALSE

\* C25: normalize_text applied to its own result gives that result again; it
\* returns the empty text for the empty text and for None; and its result
\* has no upper-case letter, no character of the punctuation table, no blank
\* at either end and no two blanks in a row.
C25_NormalizeIdempotent ==
    (pc = "returned" /\ fn = "normalize_text") =>
        /\ normalize_text(res) = res
        /\ arg \in {<<>>, None} => res = <<>>
        /\ \A i \in DOMAIN res : res[i] \notin UpperSet \cup PunctChars \cup {"\t", "\n"}
        /\ res # <<>> => res[1] # " " /\ res[Len(res)] # " "
        /\ \A i \in 1..(Len(res) - 1) : ~(res[i] = " " /\ res[i + 1] = " ")

\* C25 happens: an accented capital, a comma and a letter have become two
\* words with one blank between them.
C25_Witness ==
    /\ pc = "returned"
    /\ fn = "normalize_text"
    /\ arg = <<"U+00C1", ",", "b">>
    /\ res = <<"a", " ", "b">>

(***************************************************************************)
(* Properties of the two indices in a clustering run (C26 and C30 under    *)
(* specification SpecMain, C27 to C29 under specification Spec).           *)
(***************************************************************************)
\* A step that reads a record whose strong key is in the Strong Index.
StrongHitStep ==
    /\ total' = total + 1
    /\ Truthy(sr'.strong_key)
    /\ DictHas(strong_index, sr'.strong_key)

\* C26: a record whose strong key is in the Strong Index goes to the cluster
\* the index gives for that key, whatever the Fuzzy Index holds, no cluster
\* is created and the locals of the fuzzy scan are not touched; its fuzzy
\* key, when it has one, is mapped to that cluster in the Fuzzy Index after
\* the step and is in the cluster's fuzzy-key set.
C26_StrongHitBeforeFuzzy ==
    [][StrongHitStep =>
          /\ cl' = DictGet(strong_index, sr'.strong_key)
          /\ Len(clusters') = Len(clusters)
          /\ clusters'[cl'].members = Append(clusters[cl'].members, sr')
          /\ best_sc' = best_sc /\ best_cluster' = best_cluster
          /\ Truthy(sr'.fuzzy_key) =>
                /\ DictGet(fuzzy_index', sr'.fuzzy_key) = cl'
                /\ sr'.fuzzy_key \in clusters'[cl'].fuzzy_keys]_vars

\* C26 happens: with the fuzzy scan on, the third record went by its ISBN to
\* the first cluster although its fuzzy key is the fuzzy key of the member of
\* the second cluster; the key is now mapped to the first cluster.
C26_Witness ==
    /\ pc = "records"
    /\ use_fuzzy /\ ~strong_only
    /\ Len(clusters) = 2
    /\ Len(stream) = 3
    /\ cl = 1
    /\ clusters[1].members = <<stream[1], stream[3]>>
    /\ stream[1].strong_key = sr.strong_key
    /\ Truthy(sr.strong_key)
    /\ clusters[2].members = <<stream[2]>>
    /\ stream[2].fuzzy_key = sr.fuzzy_key
    /\ DictGet(fuzzy_index, sr.fuzzy_key) = 1

\* C27: a record the fuzzy scan assigns goes to the cluster of the first
\* entry, in the order of the Fuzzy Index, among those of the highest
\* similarity; and the keys of the Fuzzy Index keep their positions at every
\* step, whether or not they are mapped to another cluster: a new key goes
\* last.
C27_FirstBestWins ==
    [][/\ (FuzzyStep /\ BestSimilarity(fuzzy_index, sr'.fuzzy_key) > 0
                     /\ AtLeast(BestSimilarity(fuzzy_index, sr'.fuzzy_key), weak)) =>
             cl' = (LET sims == [i \in DOMAIN fuzzy_index |->
                                   token_sort_ratio(sr'.fuzzy_key, fuzzy_index[i].key)]
                        first == Least({i \in DOMAIN sims :
                                          \A j \in DOMAIN sims : sims[j] <= sims[i]})
                    IN  fuzzy_index[first].val)
       /\ Len(fuzzy_index') >= Len(fuzzy_index)
       /\ \A i \in DOMAIN fuzzy_index : fuzzy_index'[i].key = fuzzy_index[i].key]_vars

\* C27 happens: the last record's fuzzy key is as similar to the first key of
\* the Fuzzy Index as to the second, the two were keys of different clusters,
\* and the record went to the cluster of the first.
C27_Witness ==
    /\ use_fuzzy /\ ~strong_only
    /\ Len(stream) = 3
    /\ Len(fuzzy_index) = 3
    /\ fuzzy_index[3].key = sr.fuzzy_key
    /\ token_sort_ratio(sr.fuzzy_key, fuzzy_index[1].key)
          = token_sort_ratio(sr.fuzzy_key, fuzzy_index[2].key)
    /\ AtLeast(token_sort_ratio(sr.fuzzy_key, fuzzy_index[1].key), weak)
    /\ stream[1].fuzzy_key = fuzzy_index[1].key
    /\ stream[2].fuzzy_key = fuzzy_index[2].key
    /\ Len(clusters) = 2
    /\ clusters[2].members = <<stream[2]>>
    /\ cl = 1

\* C28: after a record is processed, each key it has is mapped by its index
\* to the cluster the record went to and is in that cluster's key set; every
\* key of either index is in the key set of the cluster the index maps it
\* to; every member's keys are in the key sets of its cluster.
C28_IndexPostCondition ==
    /\ total > 0 =>
          /\ Truthy(sr.strong_key) =>
                /\ DictGet(strong_index, sr.strong_key) = cl
                /\ sr.strong_key \in clusters[cl].strong_keys
          /\ Truthy(sr.fuzzy_key) =>
                /\ DictGet(fuzzy_index, sr.fuzzy_key) = cl
                /\ sr.fuzzy_key \in clusters[cl].fuzzy_keys
    /\ \A i \in DOMAIN strong_index :
          strong_index[i].key \in clusters[strong_index[i].val].strong_keys
    /\ \A i \in DOMAIN fuzzy_index :
          fuzzy_index[i].key \in clusters[fuzzy_index[i].val].fuzzy_keys
    /\ \A k \in DOMAIN clusters : \A i \in DOMAIN clusters[k].members :
          LET m == clusters[k].members[i]
          IN  /\ Truthy(m.strong_key) => m.strong_key \in clusters[k].strong_keys
              /\ Truthy(m.fuzzy_key) => m.fuzzy_key \in clusters[k].fuzzy_keys

\* C28 happens: the Fuzzy Index maps the last record's fuzzy key to its
\* cluster, and the key was a key of another cluster before: the mapping was
\* overwritten; a record with a strong key was read before it.
C28_Witness ==
    /\ total > 0
    /\ Truthy(sr.fuzzy_key)
    /\ DictGet(fuzzy_index, sr.fuzzy_key) = cl
    /\ \E j \in DOMAIN clusters : j # cl /\ sr.fuzzy_key \in clusters[j].fuzzy_keys
    /\ strong_index # <<>>

\* C29: a strong key that is in the Strong Index stays mapped to the same
\* cluster at every step; the strong-key sets of different clusters have no
\* key in common; and in every configuration the records that have the same
\* strong key are in one cluster.
C29_StrongIndexStable ==
    [][/\ \A i \in DOMAIN strong_index :
             /\ DictHas(strong_index', strong_index[i].key)
             /\ DictGet(strong_index', strong_index[i].key) = strong_index[i].val
       /\ \A j, k \in DOMAIN clusters' :
             j # k => clusters'[j].strong_keys \cap clusters'[k].strong_keys = {}
       /\ \A j, k \in DOMAIN clusters' :
             (\E x \in StrongKeysOf(j)' \cap StrongKeysOf(k)' : Truthy(x)) => j = k]_vars

\* C29 happens: with the fuzzy scan on, two records with one strong key are
\* in the second cluster, the first cluster belongs to a record read before
\* them, and the key is mapped to the second cluster.
C29_Witness ==
    /\ use_fuzzy /\ ~strong_only
    /\ Len(clusters) = 2
    /\ Len(clusters[2].members) = 2
    /\ Truthy(clusters[2].members[1].strong_key)
    /\ clusters[2].members[1].strong_key = clusters[2].members[2].strong_key
    /\ clusters[2].members[1].record # clusters[2].members[2].record
    /\ DictGet(strong_index, clusters[2].members[1].strong_key) = 2

\* A fuzzy step for a record with a strong key that the scan matches to a
\* cluster which has a strong key already.
SecondKeyStep ==
    /\ FuzzyStep
    /\ Truthy(sr'.strong_key)
    /\ BestSimilarity(fuzzy_index, sr'.fuzzy_key) > 0
    /\ AtLeast(BestSimilarity(fuzzy_index, sr'.fuzzy_key), weak)
    /\ clusters[BestScoringCluster(fuzzy_index, sr'.fuzzy_key)].strong_keys # {}

\* C30: with the fuzzy scan on, a record whose strong key is not in the
\* Strong Index and whose fuzzy key reaches the threshold joins the best
\* fuzzy cluster although that cluster has another strong key: no cluster is
\* created, the new key and the keys the cluster had are all mapped to it,
\* and every later record with a key of the Strong Index joins the cluster
\* the key is mapped to.
C30_TwoKeysOneCluster ==
    [][/\ SecondKeyStep =>
             LET c == BestScoringCluster(fuzzy_index, sr'.fuzzy_key)
             IN  /\ cl' = c
                 /\ Len(clusters') = Len(clusters)
                 /\ clusters'[c].strong_keys = clusters[c].strong_keys \cup {sr'.strong_key}
                 /\ \A k \in clusters'[c].strong_keys : DictGet(strong_index', k) = c
                 /\ \A j \in DOMAIN clusters : j # c => clusters'[j] = clusters[j]
       /\ StrongHitStep => cl' = DictGet(strong_index, sr'.strong_key)]_vars

\* C30 happens: one cluster has two strong keys, both mapped to it; its
\* second member came by the fuzzy scan with a key of its own, and its third
\* member came later by the key of the first.
C30_Witness ==
    /\ pc = "records"
    /\ use_fuzzy /\ ~strong_only
    /\ Len(clusters) = 1
    /\ Len(clusters[1].members) = 3
    /\ Cardinality(clusters[1].strong_keys) = 2
    /\ Truthy(clusters[1].members[1].strong_key)
    /\ Truthy(clusters[1].members[2].strong_key)
    /\ clusters[1].members[2].strong_key # clusters[1].members[1].strong_key
    /\ clusters[1].members[3].strong_key = clusters[1].members[1].strong_key
    /\ \A k \in clusters[1].strong_keys : DictGet(strong_index, k) = 1

(***************************************************************************)
(* Clustering by strong key alone, and fuzzy keys that are in the index    *)
(* (specification Spec).                                                   *)
(***************************************************************************)
\* The grouping a list of clusters stands for, order left out: how many
\* clusters there are of each content, the content of a cluster being how
\* many times each (source, record) is a member.
Content(c) ==
    LET who == [i \in DOMAIN c.members |-> <<c.members[i].lib, c.members[i].record>>]
    IN  [v \in Range(who) |-> Count(who, v)]
Grouping(cs) ==
    LET contents == [k \in DOMAIN cs |-> Content(cs[k])]
    IN  [b \in Range(contents) |-> Count(contents, b)]

\* C31: with the fuzzy pass off (use_fuzzy false, or strong_only) every
\* cluster has at most one strong key, a record without a strong key is the
\* only member of its cluster, the number of clusters is the number of
\* different strong keys read plus the number of records read without one,
\* and when build_clusters returns, the grouping is the grouping it gives for
\* the same records in any other order.
C31_StrongKeyOnly ==
    (~use_fuzzy \/ strong_only) =>
        /\ \A k \in DOMAIN clusters : Cardinality(clusters[k].strong_keys) <= 1
        /\ \A k \in DOMAIN clusters :
              (\E i \in DOMAIN clusters[k].members : ~Truthy(clusters[k].members[i].strong_key))
                  => Len(clusters[k].members) = 1
        /\ Len(clusters) =
              Cardinality({stream[i].strong_key : i \in DOMAIN stream} \ {None})
              + Cardinality({i \in DOMAIN stream : ~Truthy(stream[i].strong_key)})
        /\ pc = "clustered" =>
              \A p \in Permutations(DOMAIN stream) :
                  Grouping(RunOver(EmptyRun, [i \in DOMAIN stream |-> Input[p[i]]],
                                   VALIDATE, weak, use_fuzzy, strong_only).clusters)
                      = Grouping(clusters)

\* C31 happens: in strong-only mode with fuzzy keys computed, two records
\* with one ISBN and fuzzy keys, read first and last, are one cluster and
\* the record without a strong key read between them is another;
\* build_clusters has returned.
C31_Witness ==
    /\ use_fuzzy /\ strong_only
    /\ pc = "clustered"
    /\ Len(stream) = 3
    /\ Truthy(stream[1].strong_key) /\ stream[3].strong_key = stream[1].strong_key
    /\ stream[1].record # stream[3].record
    /\ ~Truthy(stream[2].strong_key) /\ Truthy(stream[2].fuzzy_key)
    /\ Len(clusters) = 2
    /\ clusters[1].members = <<stream[1], stream[3]>>
    /\ clusters[2].members = <<stream[2]>>

\* C32: with the fuzzy pass on and a threshold of at most 100, a record
\* that takes the fuzzy scan and whose fuzzy key is already a key of the
\* Fuzzy Index creates no cluster: it is appended to a cluster that existed
\* and the number of clusters is what it was.
C32_KnownFuzzyKeyJoins ==
    [][(FuzzyStep /\ DictHas(fuzzy_index, sr'.fuzzy_key) /\ weak <= 100) =>
           /\ Len(clusters') = Len(clusters)
           /\ cl' \in DOMAIN clusters
           /\ clusters'[cl'].members = Append(clusters[cl'].members, sr')
           /\ \A k \in DOMAIN clusters :
                 k # cl' => clusters'[k].members = clusters[k].members]_vars

\* C32 happens: the second record has no strong key and the fuzzy key of the
\* first, and is the second member of the first's cluster, the only cluster.
C32_Witness ==
    /\ use_fuzzy /\ ~strong_only /\ weak <= 100
    /\ total = 2
    /\ ~Truthy(stream[2].strong_key)
    /\ Truthy(stream[2].fuzzy_key)
    /\ stream[1].fuzzy_key = stream[2].fuzzy_key
    /\ sr = stream[2]
    /\ cl = 1
    /\ Len(clusters) = 1
    /\ clusters[1].members = <<stream[1], stream[2]>>

(***************************************************************************)
(* The order of the phases of main (specification SpecMain).               *)
(***************************************************************************)
\* C33: nothing is written from a partial pass.  While sources are being
\* read, and in a run that failed on a source, none of the union file, the
\* report and the manifest has been written; once one has been written,
\* every source had an accepted path and was read to its end, and every
\* record the readers yielded was processed.
C33_NoPartialOutput ==
    /\ pc \in {"main", "source", "records", "failed", "clustered"} =>
          written = <<>> /\ union = <<>> /\ report = <<>> /\ manifest = <<>>
    /\ written # <<>> =>
          /\ pc \in {"union_written", "report_written", "done"}
          /\ src = Len(sources) + 1
          /\ \A i \in DOMAIN sources : Recognized(sources[i][2])
          /\ total = Len(ReaderOutput)
          /\ [i \in DOMAIN stream |-> <<stream[i].lib, stream[i].local_id>>]
                = [i \in DOMAIN ReaderOutput |->
                     <<ReaderOutput[i][1], get_local_id(ReaderOutput[i][2])>>]

\* C33 happens: the first source was read and two records of it clustered,
\* the second source has a path that is not accepted, the run failed there
\* and nothing was written.
C33_Witness ==
    /\ pc = "failed"
    /\ Len(sources) = 2
    /\ src = 2
    /\ ~Recognized(sources[2][2])
    /\ Len(clusters) = 2
    /\ total = 2
    /\ written = <<>> /\ union = <<>> /\ report = <<>> /\ manifest = <<>>

\* What build_clusters returned, computed again from the records it
\* processed, and what of a clustering the merge phase has no business with:
\* ids, key sets, and of every member all but the record.
Returned == RunOver(EmptyRun, Input, VALIDATE, weak, use_fuzzy, strong_only).clusters
Shape(cs) ==
    [k \in DOMAIN cs |->
       [id |-> cs[k].id, strong_keys |-> cs[k].strong_keys, fuzzy_keys |-> cs[k].fuzzy_keys,
        members |-> [i \in DOMAIN cs[k].members |->
                       [lib |-> cs[k].members[i].lib,
                        local_id |-> cs[k].members[i].local_id,
                        strong_key |-> cs[k].members[i].strong_key,
                        fuzzy_key |-> cs[k].members[i].fuzzy_key]]]]

\* C34: the merge phase does not change the clustering.  From the return of
\* build_clusters on, the clusters, their ids, key sets and member lists, and
\* every member's lib, local_id, strong key and fuzzy key are what
\* build_clusters returned; the report and the manifest are those of the
\* clustering build_clusters returned.
C34_MergeKeepsClustering ==
    /\ pc \in {"clustered", "union_written", "report_written", "done"} =>
          Shape(clusters) = Shape(Returned)
    /\ pc \in {"report_written", "done"} => report = write_report(Returned)
    /\ (pc = "done" /\ Truthy(args.clusters_json)) => manifest = write_json(Returned)

\* C34 happens: a cluster of two members was merged, which changed the
\* record of one of them, and the three artifacts are written.
C34_Witness ==
    /\ pc = "done"
    /\ written = <<"out", "report", "json">>
    /\ \E k \in DOMAIN clusters :
          /\ Len(clusters[k].members) = 2
          /\ \E i \in 1..2 : clusters[k].members[i].record # Returned[k].members[i].record
          /\ Len(manifest[k].members) = 2

(***************************************************************************)
(* Properties of the year, the ISSN check and the record score             *)
(* (specification SpecCall).                                               *)
(***************************************************************************)
\* The first four characters of a subfield value that are digits and next to
\* each other, None when it has none; the $c values of a record, those of
\* the 264 fields before those of the 260 fields.
FirstRunOfFour(v) ==
    LET starts == {i \in 1..(Len(v) - 3) : \A j \in i..(i + 3) : isdigit(v[j])}
    IN  IF starts = {} THEN None ELSE SubSeq(v, Least(starts), Least(starts) + 3)
DateSubfields(r) == CandidateValues(r, t264, {"c"}) \o CandidateValues(r, t260, {"c"})

\* C35: extract_year returns the first run of four consecutive digits of a
\* date subfield (264 $c before 260 $c, fields and subfields in order); when
\* no date subfield has such a run, characters 7 to 10 of the first 008
\* field if it has at least 11 characters and the four are digits; the empty
\* string otherwise.
C35_FirstRunOfFourDigits ==
    (pc = "returned" /\ fn = "extract_year") =>
        LET runs == SelectSeq([i \in DOMAIN DateSubfields(arg) |->
                                 FirstRunOfFour(DateSubfields(arg)[i])],
                              LAMBDA y : y # None)
            f008 == get_fields(arg, {t008})
        IN  res = IF runs # <<>> THEN runs[1]
                  ELSE IF /\ f008 # <<>>
                          /\ Len(f008[1].data) >= 11
                          /\ \A j \in 8..11 : isdigit(f008[1].data[j])
                       THEN SubSeq(f008[1].data, 8, 11)
                  ELSE <<>>

\* C36: is_valid_issn gives for seven characters what the check of eight
\* gives for them after a 0: true when the first seven of the eight are
\* digits, the eighth is a digit or X and the eight satisfy the check
\* equation, false otherwise, and false for every other length; a character
\* among the first seven that is not a digit gives false.  An ISSN of seven
\* characters that norm_issn accepts is returned as those seven, and is the
\* strong key after "ISSN:" when it is the first candidate of a record
\* without field 020.
C36_SevenCharacterIssn ==
    pc = "returned" =>
        /\ fn = "is_valid_issn" =>
              LET d == IF Len(arg) = 7 THEN <<"0">> \o arg ELSE arg
              IN  /\ res = (/\ Len(d) = 8
                            /\ \A i \in 1..7 : d[i] \in DigitSet
                            /\ d[8] \in CheckChars
                            /\ IssnEquation(d))
                  /\ Len(arg) = 7 => res = is_valid_issn(<<"0">> \o arg)
        /\ (fn = "norm_issn" /\ Len(only_digits_x(arg)) = 7) =>
              res = IF ~VALIDATE \/ IssnEquation(<<"0">> \o only_digits_x(arg))
                    THEN only_digits_x(arg) ELSE None
        /\ (/\ fn = "extract_strong_key"
            /\ get_fields(arg, {t020}) = <<>>
            /\ CandidateValues(arg, t022, {"a", "y", "z"}) # <<>>) =>
              LET d == only_digits_x(CandidateValues(arg, t022, {"a", "y", "z"})[1])
              IN  (Len(d) = 7 /\ (~VALIDATE \/ IssnEquation(<<"0">> \o d))) =>
                      res = <<"I", "S", "S", "N", ":">> \o d

\* C36 happens: with checksums enforced, 378-5955 in field 022 has given the
\* strong key ISSN:3785955, the seven characters without the 0.
C36_Witness ==
    /\ pc = "returned"
    /\ fn = "extract_strong_key"
    /\ VALIDATE
    /\ arg = <<Plain(t022, "a", <<"3", "7", "8", "-", "5", "9", "5", "5">>)>>
    /\ is_valid_issn(<<"3", "7", "8", "5", "9", "5", "5">>)
    /\ ~is_valid_issn(<<"3", "7", "8", "5", "9", "5", "0">>)
    /\ res = <<"I", "S", "S", "N", ":", "3", "7", "8", "5", "9", "5", "5">>

\* Whether a record has a field with one of the tags; the bonus of a
\* subfield 9 value, that of the first authority pattern it matches; the
\* subfields 9 of the fields whose tag is a number from 100 to 111, 600 to
\* 699 or 700 to 799, by position.
Has(r, tags) == \E i \in DOMAIN r : r[i].tag \in tags
FirstBonus(v) ==
    LET v2 == strip(MapSeq(lower, v))
        bonus == <<6, 6, 5, 4, 4, 4>>
        match == <<MatchVVIAF(v2), MatchISNI(v2), MatchWD(v2),
                   MatchBNE(v2), MatchLEMAC(v2), MatchCANTIC(v2)>>
        hits == {k \in DOMAIN match : match[k]}
    IN  IF hits = {} THEN 2 ELSE bonus[Least(hits)]
HeadingTag(tag) ==
    /\ Len(tag) = 3
    /\ \A i \in 1..3 : tag[i] \in DigitSet
    /\ \/ tag[1] \in {"6", "7"}
       \/ tag[1] = "1" /\ (tag[2] = "0" \/ (tag[2] = "1" /\ tag[3] \in {"0", "1"}))
Nines(r) ==
    UNION {{<<i, j>> : j \in {j \in DOMAIN r[i].subfields : r[i].subfields[j].code = "9"}} :
             i \in {i \in DOMAIN r : HeadingTag(r[i].tag)}}

\* C37: score_record is 15 for a 245 field, 10 for a 260 or 264 field, 8 for
\* a 100, 110 or 111 field, 12 for a 020 field, 10 for a 022 field, 4 for a
\* 300 field, each once however many fields have the tag, 15 when the first
\* 008 field has 40 characters or more, 1 for every indicator that is not
\* blank, and for every subfield 9 of a heading field the bonus of the first
\* authority pattern it matches, or 2.
C37_ScoreIsTheSum ==
    (pc = "returned" /\ fn = "score_record") =>
        res = (IF Has(arg, {t245}) THEN 15 ELSE 0)
            + (IF Has(arg, {t260, t264}) THEN 10 ELSE 0)
            + (IF Has(arg, {t100, t110, t111}) THEN 8 ELSE 0)
            + (IF Has(arg, {t020}) THEN 12 ELSE 0)
            + (IF Has(arg, {t022}) THEN 10 ELSE 0)
            + (IF Has(arg, {t300}) THEN 4 ELSE 0)
            + (IF Has(arg, {t008})
                  /\ Len(arg[Least({i \in DOMAIN arg : arg[i].tag = t008})].data) >= 40
               THEN 15 ELSE 0)
            + Cardinality({i \in DOMAIN arg : arg[i].indicator1 \notin {" ", ""}})
            + Cardinality({i \in DOMAIN arg : arg[i].indicator2 \notin {" ", ""}})
            + 6 * Cardinality({p \in Nines(arg) : FirstBonus(arg[p[1]].subfields[p[2]].value) = 6})
            + 5 * Cardinality({p \in Nines(arg) : FirstBonus(arg[p[1]].subfields[p[2]].value) = 5})
            + 4 * Cardinality({p \in Nines(arg) : FirstBonus(arg[p[1]].subfields[p[2]].value) = 4})
            + 2 * Cardinality({p \in Nines(arg) : FirstBonus(arg[p[1]].subfields[p[2]].value) = 2})

\* C37 happens: a record of two 245 fields, the second with two indicators
\* and a subfield 9 that is not on a heading field, has scored 15 + 2; a
\* record of a 100 field with one indicator, a VIAF number and an unmatched
\* subfield 9 would score 8 + 1 + 6 + 2.
C37_Witness ==
    /\ pc = "returned"
    /\ fn = "score_record"
    /\ Len(arg) = 2
    /\ arg[1] = Plain(t245, "a", <<"x">>)
    /\ arg[2].tag = t245 /\ arg[2].indicator1 = "1" /\ arg[2].indicator2 = "0"
    /\ \E j \in DOMAIN arg[2].subfields : arg[2].subfields[j].code = "9"
    /\ res = 17
    /\ \E f \in ScoreFields : f.tag = t100 /\ score_record(<<f>>) = 17

(***************************************************************************)
(* The keep9 parameter (specification SpecMerge).                          *)
(***************************************************************************)
\* C38: keep9 has no influence.  The record merge_cluster returned, the
\* primary it chose and the members' records it left are those of a merge of
\* the same cluster with the same other parameters and keep9 true, and those
\* of one with keep9 false; the members' sources, local ids and keys are
\* what they were.
C38_Keep9HasNoEffect ==
    pc = "merged" =>
        /\ \A k9 \in BOOLEAN :
              LET m == merge_cluster(members0, prefer, prefer_fields, prov_tag,
                                     hold_tag, merge_tag, k9)
              IN  /\ rec = m.rec
                  /\ primary = m.primary
                  /\ [i \in DOMAIN cluster.members |-> cluster.members[i].record] = m.heap
        /\ LibAndId(cluster.members) = LibAndId(members0)
        /\ \A i \in DOMAIN members0 :
              /\ cluster.members[i].strong_key = members0[i].strong_key
              /\ cluster.members[i].fuzzy_key = members0[i].fuzzy_key

\* C38 happens: a cluster of two members was merged with keep9 false, and
\* the record returned has the holdings fields (910) and the merge note
\* (948), fields with a 9xx tag.
C38_Witness ==
    /\ pc = "merged"
    /\ ~keep9
    /\ Len(members0) = 2
    /\ hold_tag = t910 /\ merge_tag = t948
    /\ Len(get_fields(rec, {t910})) = 2
    /\ Len(get_fields(rec, {t948})) = 1

(***************************************************************************)
(* Properties of PerfMonitor.phase (specification SpecPhase).              *)
(***************************************************************************)
\* The positions of an event of a phase in log_perf.
Logged(event, phase_id) ==
    {i \in DOMAIN log_perf : log_perf[i].event = event /\ log_perf[i].id = phase_id}

\* C39: PerfMonitor.phase pairs its events.  A step that enters a phase
\* increments phase_counter by one and logs one PHASE_START with the new
\* value; the ids of the PHASE_START records are 1, 2, 3, ... in log order;
\* a phase that has been left, its body having ended or raised, has exactly
\* one PHASE_END, logged after its PHASE_START, with the same id and name,
\* and a phase that has not been left has none; a step in which a body
\* raises logs the PHASE_END of its phase, and the exception is still
\* propagating after it and after every PHASE_END it causes on its way out.
C39_PhaseEventsPaired ==
    /\ [](/\ SelectSeq(log_perf, LAMBDA e : e.event = "PHASE_START")
                = [i \in 1..phase_counter |->
                     PhaseEvent("PHASE_START", i,
                                log_perf[Least(Logged("PHASE_START", i))].name)]
          /\ \A i \in 1..phase_counter :
                /\ Cardinality(Logged("PHASE_START", i)) = 1
                /\ IF \E k \in DOMAIN phases : phases[k].phase_id = i
                   THEN Logged("PHASE_END", i) = {}
                   ELSE /\ Cardinality(Logged("PHASE_END", i)) = 1
                        /\ \A b \in Logged("PHASE_START", i), e \in Logged("PHASE_END", i) :
                              b < e /\ log_perf[b].name = log_perf[e].name
          /\ \A i \in DOMAIN log_perf : log_perf[i].id \in 1..phase_counter)
    /\ [][/\ phase_counter' # phase_counter =>
                /\ phase_counter' = phase_counter + 1
                /\ \E name \in PhaseNames :
                      log_perf' = Append(log_perf, PhaseEvent("PHASE_START", phase_counter', name))
          /\ (~raising /\ raising') =>
                /\ phases # <<>>
                /\ log_perf' = Append(log_perf,
                                      PhaseEvent("PHASE_END", phases[Len(phases)].phase_id,
                                                 phases[Len(phases)].name))
          /\ (raising /\ Len(log_perf') > Len(log_perf)) => raising'
          /\ (raising /\ phases = <<>> /\ pc = "phases") => pc' = "raised"]_vars

\* C39 happens: two phases were entered, one inside the other; the body of
\* the inner one raised; both have their PHASE_END, the inner one first, and
\* the exception has left the outer phase.
C39_Witness ==
    /\ pc = "raised"
    /\ raising
    /\ phase_counter = 2
    /\ phases = <<>>
    /\ Len(log_perf) = 4
    /\ log_perf[1].name # log_perf[2].name
    /\ log_perf[3] = PhaseEvent("PHASE_END", 2, log_perf[2].name)
    /\ log_perf[4] = PhaseEvent("PHASE_END", 1, log_perf[1].name)

=============================================================================
